---- MODULE Spec2Model ----
(***************************************************************************)
(* Model of Urho3D/rbfx AnimatedModel (Source/Urho3D/Graphics/             *)
(* AnimatedModel.cpp): the animation LOD timer gate, morph weight          *)
(* propagation between the master and sibling components of one node,      *)
(* skin matrix building, bone hierarchy composition, bone bounding         *)
(* volumes, the master role and the threaded animation update.             *)
(*                                                                         *)
(* Floating point quantities are modelled by integers in a fixed unit      *)
(* (exact arithmetic); matrices are modelled by elements of a small        *)
(* non-commutative monoid (see the skinning section).                      *)
(***************************************************************************)
EXTENDS Integers, Sequences, FiniteSets

(***************************************************************************)
(* Bounds of the model.                                                    *)
(***************************************************************************)
MaxBias == 2
MaxDistance == 10
MaxTimeStep == 2
MaxCalls == 11
MaxBaseScale == 2
MaxFrame == 3
NumModels == 3
MaxSkinBones == 2
NumBones == 3
MaxExtent == 2

Max(a, b) == IF a >= b THEN a ELSE b
Min(a, b) == IF a <= b THEN a ELSE b

VARIABLES
    \* ---- LOD / timer gate (one AnimatedModel) ----
    animationLodBias_,        \* float animationLodBias_
    animationLodDistance_,    \* float animationLodDistance_
    animationLodTimer_,       \* float animationLodTimer_ (negative = sentinel)
    animationLodFrameNumber_, \* unsigned animationLodFrameNumber_
    baseScale,                \* ANIMATION_LOD_BASESCALE, a compile-time constant left open
    frameNumber,              \* the engine's current frame number
    lodRun,                   \* history: the direct calls of the gate since construction
    viewDistances,            \* history: the distances of the views of frame animationLodFrameNumber_
    \* ---- morph weights of the AnimatedModel components of one node ----
    components,               \* the node's AnimatedModel components, in attachment order
    isMaster_,                \* bool isMaster_, per component
    destroyed,                \* the components that have been destroyed
    promotionOwed,            \* history: the master was removed and no successor promoted yet
    morphs_,                  \* ea::vector<ModelMorph> morphs_, per component
    morphsDirty_,             \* bool morphsDirty_, per component
    modelAnimator_,           \* whether modelAnimator_ is non-null, per component
    \* ---- model, skeleton and skinning of the first component of the node ----
    model_,                   \* SharedPtr<Model> model_: the asset set, 0 = none
    skeleton_,                \* Skeleton skeleton_: the bones
    otherSkeletons,           \* the bones of the skeleton_ of each other component of the node
    bonesOrder,               \* skeleton_.GetBonesOrder()
    nodeWorld,                \* node_->GetWorldTransform()
    boneNodeTransform,        \* position, rotation and scale of bone.node_, per bone
    skeletonData_,            \* ea::vector<ModelAnimationOutput> skeletonData_
    skinMatrices_,            \* ea::vector<Matrix3x4> skinMatrices_
    geometryBoneMappings_,    \* per geometry, the global bone index of each local slot
    geometrySkinMatrices_,    \* per geometry, the matrix of each local slot
    geometrySkinMatrixPtrs_,  \* per bone, the slots (geometry, slot) aliasing it
    skinningDirty_,           \* bool skinningDirty_
    softwareSkinning_,        \* bool softwareSkinning_
    \* ---- animation update of the first component ----
    animationDirty_,          \* bool animationDirty_
    boneBoundingBoxDirty_,    \* bool boneBoundingBoxDirty_
    forceAnimationUpdate_,    \* bool forceAnimationUpdate_
    viewFrameNumber_,         \* unsigned viewFrameNumber_ (Drawable), 0 = never in view
    updateInvisible_,         \* bool updateInvisible_
    everInView,               \* history: MarkInView has been called
    queuedTransforms,         \* the octree's queue of node transform updates, per bone
    markedForUpdate,          \* the component is queued for Update (MarkForUpdate)
    \* ---- the subsystems of the context ----
    graphics,                 \* whether GetSubsystem<Graphics>() is non-null
    \* ---- the UI subsystem: dragging ----
    uiElements,               \* per UIElement: WeakPtr valid, IsEnabled(), IsVisible()
    dragElements_,            \* dragElements_: element -> DragData
    dragElementsCount_,       \* int dragElementsCount_
    dragConfirmedCount_,      \* int dragConfirmedCount_
    dragNotes,                \* history: notifications sent for the current drag
    \* ---- the UI subsystem: the element tree ----
    parent_,                  \* UIElement::parent_ of every element
    children_,                \* UIElement::children_ of every element
    vars_,                    \* UIElement::vars_ of every element
    \* ---- further fields of the first component ----
    assignBonesPending_,      \* bool assignBonesPending_
    animationStateSource_,    \* whether animationStateSource_ is non-null
    \* ---- bounding boxes of the first component, in halves of the unit ----
    boneBoundingBox_,         \* BoundingBox boneBoundingBox_
    worldBoundingBoxDirty_,   \* bool worldBoundingBoxDirty_ (Drawable)
    worldBoundingBox_,        \* BoundingBox worldBoundingBox_ (Drawable)
    \* ---- the last operation performed and what it returned ----
    last

lodVars == <<animationLodBias_, animationLodDistance_, animationLodTimer_,
             animationLodFrameNumber_, baseScale, frameNumber, lodRun, viewDistances>>
nodeVars == <<components, isMaster_, destroyed, promotionOwed>>
morphVars == <<nodeVars, morphs_, morphsDirty_, modelAnimator_>>
skinVars == <<model_, skeleton_, otherSkeletons, bonesOrder, nodeWorld, boneNodeTransform, skeletonData_,
              skinMatrices_, geometryBoneMappings_,
              geometrySkinMatrices_, geometrySkinMatrixPtrs_, skinningDirty_,
              softwareSkinning_>>
animVars == <<animationDirty_, boneBoundingBoxDirty_, forceAnimationUpdate_>>
viewVars == <<viewFrameNumber_, updateInvisible_, everInView, queuedTransforms,
              markedForUpdate>>
dragVars == <<uiElements, dragElements_, dragElementsCount_, dragConfirmedCount_, dragNotes>>
modalVars == <<parent_, children_, vars_>>
uiVars == <<dragVars, modalVars>>
contextVars == <<graphics, uiVars>>
hostVars == <<contextVars, assignBonesPending_, animationStateSource_>>
boundsVars == <<boneBoundingBox_, worldBoundingBoxDirty_, worldBoundingBox_>>
vars == <<lodVars, morphVars, skinVars, animVars, viewVars, hostVars, boundsVars, last>>

notLodVars == <<morphVars, skinVars, animVars, viewVars, hostVars, boundsVars>>
notMorphVars == <<lodVars, skinVars, animVars, viewVars, hostVars, boundsVars>>
notSkinVars == <<lodVars, morphVars, viewVars, hostVars, boundsVars>>

NoOp == [op |-> "none"]

(***************************************************************************)
(* LOD / timer gate                                                        *)
(***************************************************************************)
BaseScales == 1..MaxBaseScale
TimeSteps == 0..MaxTimeStep
Biases == (0 - 1)..MaxBias
LodDistances == 0..MaxDistance

\* The sentinel the constructor and PrepareForThreadedUpdate store (-1.0f).
TimerSentinel == 0 - 1

\* fmodf for a non-negative dividend and a positive divisor.
fmodf(x, y) == x % y

\* Variants of UpdateAndCheckAnimationTimers with a slip in one branch.
\* The bias test is left out of the throttling condition.
UpdateAndCheckAnimationTimers_NoBiasTest(timer, bias, distance, timeStep, scale) ==
    IF distance > 0
    THEN IF timer >= 0
         THEN LET t == timer + bias * timeStep * scale
              IN  IF t >= distance
                  THEN [due |-> TRUE, timer |-> fmodf(t, distance)]
                  ELSE [due |-> FALSE, timer |-> t]
         ELSE [due |-> TRUE, timer |-> 0]
    ELSE [due |-> TRUE, timer |-> timer]

\* The first call accumulates its timeStep instead of storing zero.
UpdateAndCheckAnimationTimers_FirstAccumulates(timer, bias, distance, timeStep, scale) ==
    IF bias > 0 /\ distance > 0
    THEN IF timer >= 0
         THEN LET t == timer + bias * timeStep * scale
              IN  IF t >= distance
                  THEN [due |-> TRUE, timer |-> fmodf(t, distance)]
                  ELSE [due |-> FALSE, timer |-> t]
         ELSE [due |-> TRUE, timer |-> bias * timeStep * scale]
    ELSE [due |-> TRUE, timer |-> timer]

\* The comparison with the distance is strict.
UpdateAndCheckAnimationTimers_StrictCompare(timer, bias, distance, timeStep, scale) ==
    IF bias > 0 /\ distance > 0
    THEN IF timer >= 0
         THEN LET t == timer + bias * timeStep * scale
              IN  IF t > distance
                  THEN [due |-> TRUE, timer |-> fmodf(t, distance)]
                  ELSE [due |-> FALSE, timer |-> t]
         ELSE [due |-> TRUE, timer |-> 0]
    ELSE [due |-> TRUE, timer |-> timer]

\* A due call resets the timer to zero instead of wrapping it.
UpdateAndCheckAnimationTimers_ResetOnDue(timer, bias, distance, timeStep, scale) ==
    IF bias > 0 /\ distance > 0
    THEN IF timer >= 0
         THEN LET t == timer + bias * timeStep * scale
              IN  IF t >= distance
                  THEN [due |-> TRUE, timer |-> 0]
                  ELSE [due |-> FALSE, timer |-> t]
         ELSE [due |-> TRUE, timer |-> 0]
    ELSE [due |-> TRUE, timer |-> timer]

\* The time of a call that is not due is dropped instead of accumulated.
UpdateAndCheckAnimationTimers_DropsTime(timer, bias, distance, timeStep, scale) ==
    IF bias > 0 /\ distance > 0
    THEN IF timer >= 0
         THEN LET t == timer + bias * timeStep * scale
              IN  IF t >= distance
                  THEN [due |-> TRUE, timer |-> fmodf(t, distance)]
                  ELSE [due |-> FALSE, timer |-> timer]
         ELSE [due |-> TRUE, timer |-> 0]
    ELSE [due |-> TRUE, timer |-> timer]

\* AnimatedModel::UpdateAndCheckAnimationTimers: the value returned and the
\* timer stored, from the timer, bias and distance fields and the timeStep.
UpdateAndCheckAnimationTimers(timer, bias, distance, timeStep, scale) ==
    IF bias > 0 /\ distance > 0
    THEN IF timer >= 0
         THEN LET t == timer + bias * timeStep * scale
              IN  IF t >= distance
                  THEN [due |-> TRUE, timer |-> fmodf(t, distance)]
                  ELSE [due |-> FALSE, timer |-> t]
         ELSE [due |-> TRUE, timer |-> 0]
    ELSE [due |-> TRUE, timer |-> timer]

\* History of the calls of the gate: how many calls, how many reported due,
\* the timeStep of the first call, and whether the run is steady (every call
\* used that timeStep and bias and distance were not set after the first call).
NoRun == [calls |-> 0, dues |-> 0, timeStep |-> 0, steady |-> TRUE]
BrokenRun == [calls |-> 0, dues |-> 0, timeStep |-> 0, steady |-> FALSE]

RunAfterCall(run, timeStep, due) ==
    IF run.steady /\ (run.calls = 0 \/ run.timeStep = timeStep)
    THEN [calls |-> run.calls + 1,
          dues |-> run.dues + (IF due THEN 1 ELSE 0),
          timeStep |-> timeStep,
          steady |-> TRUE]
    ELSE BrokenRun

RunAfterSet(run) == IF run.calls = 0 /\ run.steady THEN run ELSE BrokenRun

\* The history of the views is kept in the specifications that start it with
\* the empty set, and is left out (NotRecorded) in the others.
NotRecorded == {0 - 1}

\* AnimatedModel::AnimatedModel
ConstructLod(scale) ==
    /\ animationLodBias_ = 1
    /\ animationLodDistance_ = 0
    /\ animationLodTimer_ = TimerSentinel
    /\ animationLodFrameNumber_ = 0
    /\ baseScale = scale
    /\ frameNumber = 1
    /\ lodRun = NoRun
    /\ viewDistances = NotRecorded

InitLod == \E scale \in BaseScales : ConstructLod(scale)
IdleLod == ConstructLod(1)

\* AnimatedModel::SetAnimationLodBias
SetAnimationLodBias(bias) ==
    /\ animationLodBias_' = Max(bias, 0)
    /\ lodRun' = RunAfterSet(lodRun)
    /\ last' = [op |-> "SetAnimationLodBias", bias |-> bias]
    /\ UNCHANGED <<animationLodDistance_, animationLodTimer_, animationLodFrameNumber_,
                   baseScale, viewDistances, frameNumber>>
    /\ UNCHANGED notLodVars

\* The engine begins the next frame.
BeginFrame ==
    /\ frameNumber < MaxFrame
    /\ frameNumber' = frameNumber + 1
    /\ last' = [op |-> "BeginFrame"]
    /\ UNCHANGED <<animationLodBias_, animationLodDistance_, animationLodTimer_,
                   animationLodFrameNumber_, baseScale, viewDistances, lodRun>>
    /\ UNCHANGED notLodVars

\* Variant of UpdateBatches that takes the minimum with the distance kept from
\* the frame before.
UpdateBatches_AlwaysMin(newLodDistance) ==
    /\ animationLodDistance_' = Min(animationLodDistance_, newLodDistance)
    /\ animationLodFrameNumber_' = frameNumber
    /\ lodRun' = RunAfterSet(lodRun)
    /\ viewDistances' = IF viewDistances = NotRecorded THEN NotRecorded
                        ELSE IF frameNumber # animationLodFrameNumber_ THEN {newLodDistance}
                        ELSE viewDistances \cup {newLodDistance}
    /\ last' = [op |-> "UpdateBatches", newLodDistance |-> newLodDistance,
                distance |-> animationLodDistance_,
                sameFrame |-> (frameNumber = animationLodFrameNumber_)]
    /\ UNCHANGED <<animationLodBias_, animationLodTimer_, baseScale, frameNumber>>
    /\ UNCHANGED notLodVars

\* AnimatedModel::UpdateBatches, the animation LOD distance part: newLodDistance
\* is what Camera::GetLodDistance returned for this view.
UpdateBatches(newLodDistance) ==
    /\ IF frameNumber # animationLodFrameNumber_
       THEN /\ animationLodDistance_' = newLodDistance
            /\ animationLodFrameNumber_' = frameNumber
       ELSE /\ animationLodDistance_' = Min(animationLodDistance_, newLodDistance)
            /\ UNCHANGED animationLodFrameNumber_
    /\ lodRun' = RunAfterSet(lodRun)
    /\ viewDistances' = IF viewDistances = NotRecorded THEN NotRecorded
                        ELSE IF frameNumber # animationLodFrameNumber_ THEN {newLodDistance}
                        ELSE viewDistances \cup {newLodDistance}
    /\ last' = [op |-> "UpdateBatches", newLodDistance |-> newLodDistance,
                distance |-> animationLodDistance_,
                sameFrame |-> (frameNumber = animationLodFrameNumber_)]
    /\ UNCHANGED <<animationLodBias_, animationLodTimer_, baseScale, frameNumber>>
    /\ UNCHANGED notLodVars

\* A call of UpdateAndCheckAnimationTimers(timeStep), as made by Update and
\* UpdateGeometry.
CheckAnimationTimers(timeStep) ==
    /\ lodRun.calls < MaxCalls
    /\ LET r == UpdateAndCheckAnimationTimers(animationLodTimer_, animationLodBias_,
                                              animationLodDistance_, timeStep, baseScale)
       IN  /\ animationLodTimer_' = r.timer
           /\ lodRun' = RunAfterCall(lodRun, timeStep, r.due)
           /\ last' = [op |-> "UpdateAndCheckAnimationTimers", timeStep |-> timeStep,
                       timer |-> animationLodTimer_, due |-> r.due]
    /\ UNCHANGED <<animationLodBias_, animationLodDistance_, animationLodFrameNumber_,
                   baseScale, viewDistances, frameNumber>>
    /\ UNCHANGED notLodVars

NextLod ==
    \/ \E bias \in Biases : SetAnimationLodBias(bias)
    \/ BeginFrame
    \/ \E d \in LodDistances : UpdateBatches(d)
    \/ \E timeStep \in TimeSteps : CheckAnimationTimers(timeStep)


(***************************************************************************)
(* Morph weights: the master and sibling AnimatedModel components of a node *)
(***************************************************************************)
Models == 1..NumModels

\* Morph names; the models of the components share them.
MorphNames == 1..3

\* Weights are counted in units of 1/255, so that 1.0f is WeightOne.
WeightOne == 255
Weights == {0, 2 * WeightOne}
Bytes == {0, 255}

\* The buffers handed to SetMorphsAttr: one byte more than any model has morphs.
AttrValues == [1..3 -> Bytes]

\* StringHash of a morph name (names 1 and 3 collide).
StringHash(name) == name % 2
NameHashes == {StringHash(n) : n \in MorphNames}

\* (float)value[index] / 255.0f
ByteToWeight(byte) == (byte * WeightOne) \div 255

\* Model::GetMorphs() of the model of component m, weights zero: the first
\* component's model has two morphs, the others one each, so that a name sits
\* at different indices in different models.
ModelMorphs(m) ==
    LET n1 == ((m - 1) % 3) + 1
        n2 == (m % 3) + 1
        morph(n) == [name |-> n, nameHash |-> StringHash(n), weight |-> 0]
    IN  IF m = 1 THEN <<morph(n1), morph(n2)>> ELSE <<morph(n1)>>

MorphIndices == 0..2

\* The morph state the operations below transform.
MorphState == [morphs |-> morphs_, dirty |-> morphsDirty_, animator |-> modelAnimator_]

\* Index (from 1) of the first morph whose field has the value, 0 if none.
FirstMorph(morphs, field, value) ==
    LET hits == {k \in 1..Len(morphs) : morphs[k][field] = value}
    IN  IF hits = {} THEN 0 ELSE CHOOSE k \in hits : \A j \in hits : k <= j

\* AnimatedModel::MarkMorphsDirty
MarkMorphsDirty(st, m) == [st EXCEPT !.dirty[m] = TRUE]

\* AnimatedModel::CloneGeometries
CloneGeometries(st, m) == MarkMorphsDirty([st EXCEPT !.animator[m] = TRUE], m)

RECURSIVE SetMorphWeight(_, _, _, _)
RECURSIVE SetMorphWeightHash(_, _, _, _)
RECURSIVE PropagateMorphWeight(_, _, _, _)
RECURSIVE ResetMorphWeights(_, _)
RECURSIVE PropagateReset(_, _)
RECURSIVE SetMorphsAttrFrom(_, _, _, _)

\* AnimatedModel::SetMorphWeight(StringHash, float)
SetMorphWeightHash(st, m, nameHash, weight) ==
    LET k == FirstMorph(st.morphs[m], "nameHash", nameHash)
    IN  IF k = 0 THEN st ELSE SetMorphWeight(st, m, k - 1, weight)

\* AnimatedModel::SetMorphWeight(const ea::string&, float)
SetMorphWeightName(st, m, name, weight) ==
    LET k == FirstMorph(st.morphs[m], "name", name)
    IN  IF k = 0 THEN st ELSE SetMorphWeight(st, m, k - 1, weight)

\* The loop of SetMorphWeight over models[i], i >= 1 (position i + 1 here).
PropagateMorphWeight(st, pos, nameHash, weight) ==
    IF pos > Len(components)
    THEN st
    ELSE LET other == components[pos]
             st1 == IF ~isMaster_[other]
                    THEN SetMorphWeightHash(st, other, nameHash, weight)
                    ELSE st
         IN  PropagateMorphWeight(st1, pos + 1, nameHash, weight)

\* Variants of SetMorphWeight(unsigned, float) with a slip.
\* The weight is handed to the siblings by index instead of by name hash.
SetMorphWeight_ByIndex(st, m, index, weight) ==
    IF index >= Len(st.morphs[m])
    THEN st
    ELSE LET st1 == IF weight # 0 /\ ~st.animator[m] THEN CloneGeometries(st, m) ELSE st
         IN  IF weight # st1.morphs[m][index + 1].weight
             THEN LET st2 == [st1 EXCEPT !.morphs[m][index + 1].weight = weight]
                      others == {o \in Models : \E pos \in 2..Len(components) :
                                    components[pos] = o /\ ~isMaster_[o]}
                      st3 == IF isMaster_[m]
                             THEN [st2 EXCEPT !.morphs = [o \in Models |->
                                     IF o \in others /\ index < Len(st2.morphs[o])
                                     THEN [st2.morphs[o] EXCEPT ![index + 1].weight = weight]
                                     ELSE st2.morphs[o]]]
                             ELSE st2
                  IN  MarkMorphsDirty(st3, m)
             ELSE st1

\* AnimatedModel::SetMorphWeight(unsigned, float); index counts from 0.
SetMorphWeight(st, m, index, weight) ==
    IF index >= Len(st.morphs[m])
    THEN st
    ELSE LET st1 == IF weight # 0 /\ ~st.animator[m] THEN CloneGeometries(st, m) ELSE st
         IN  IF weight # st1.morphs[m][index + 1].weight
             THEN LET st2 == [st1 EXCEPT !.morphs[m][index + 1].weight = weight]
                      st3 == IF isMaster_[m]
                             THEN PropagateMorphWeight(st2, 2,
                                      st2.morphs[m][index + 1].nameHash, weight)
                             ELSE st2
                  IN  MarkMorphsDirty(st3, m)
             ELSE st1

\* The loop of ResetMorphWeights over models[i], i >= 1.
PropagateReset(st, pos) ==
    IF pos > Len(components)
    THEN st
    ELSE LET other == components[pos]
             st1 == IF ~isMaster_[other] THEN ResetMorphWeights(st, other) ELSE st
         IN  PropagateReset(st1, pos + 1)

\* A variant of ResetMorphWeights with a slip: the other non-master components
\* are reset whether or not the component is the master.
ResetMorphWeights_AnyPropagates(st, m) ==
    LET others == {o \in Models \ {m} : ~isMaster_[o]}
        zeroed(morphs) == [k \in 1..Len(morphs) |-> [morphs[k] EXCEPT !.weight = 0]]
    IN  [st EXCEPT !.morphs = [o \in Models |->
                        IF o = m \/ o \in others THEN zeroed(st.morphs[o]) ELSE st.morphs[o]],
                   !.dirty = [o \in Models |-> o = m \/ o \in others \/ st.dirty[o]]]

\* AnimatedModel::ResetMorphWeights
ResetMorphWeights(st, m) ==
    LET st1 == [st EXCEPT !.morphs[m] =
                    [k \in 1..Len(st.morphs[m]) |-> [st.morphs[m][k] EXCEPT !.weight = 0]]]
        st2 == IF isMaster_[m] THEN PropagateReset(st1, 2) ELSE st1
    IN  MarkMorphsDirty(st2, m)

\* AnimatedModel::SetMorphsAttr, from index (counted from 0) on.
SetMorphsAttrFrom(st, m, value, index) ==
    IF index >= Len(value)
    THEN st
    ELSE SetMorphsAttrFrom(SetMorphWeight(st, m, index, ByteToWeight(value[index + 1])),
                           m, value, index + 1)

SetMorphsAttr(st, m, value) == SetMorphsAttrFrom(st, m, value, 0)

\* Variant of UpdateMorphs that does not ask for the graphics subsystem.
UpdateMorphs_Headless(st, m) == [st EXCEPT !.dirty[m] = FALSE]

\* AnimatedModel::UpdateMorphs: without a graphics subsystem it returns at
\* once; with one the vertex data is rebuilt and the flag cleared.
UpdateMorphs(st, m) == IF ~graphics THEN st ELSE [st EXCEPT !.dirty[m] = FALSE]

\* The components constructed, attached to the node in the order 1..NumModels
\* (OnNodeSet makes the first one the master), each with its model set.
InitMorph ==
    /\ components = [pos \in 1..NumModels |-> pos]
    /\ isMaster_ = [m \in Models |-> m = 1]
    /\ destroyed = {}
    /\ promotionOwed = FALSE
    /\ morphs_ = [m \in Models |-> ModelMorphs(m)]
    /\ morphsDirty_ = [m \in Models |-> FALSE]
    /\ modelAnimator_ = [m \in Models |-> FALSE]

IdleMorph == InitMorph

StoreMorphState(st) ==
    /\ morphs_' = st.morphs
    /\ morphsDirty_' = st.dirty
    /\ modelAnimator_' = st.animator

\* The record of a SetMorphWeight call on m that resolved to the morph at index
\* k (from 1), or to none (k = 0).
MorphCall(m, k, weight) ==
    IF k = 0
    THEN [op |-> "SetMorphWeight", model |-> m, found |-> FALSE]
    ELSE [op |-> "SetMorphWeight", model |-> m, found |-> TRUE,
          nameHash |-> morphs_[m][k].nameHash, weight |-> weight]

CallSetMorphWeight(m, index, weight) ==
    /\ StoreMorphState(SetMorphWeight(MorphState, m, index, weight))
    /\ UNCHANGED nodeVars
    /\ UNCHANGED notMorphVars
    /\ last' = MorphCall(m, IF index < Len(morphs_[m]) THEN index + 1 ELSE 0, weight)

CallSetMorphWeightName(m, name, weight) ==
    /\ StoreMorphState(SetMorphWeightName(MorphState, m, name, weight))
    /\ UNCHANGED nodeVars
    /\ UNCHANGED notMorphVars
    /\ last' = MorphCall(m, FirstMorph(morphs_[m], "name", name), weight)

CallSetMorphWeightHash(m, nameHash, weight) ==
    /\ StoreMorphState(SetMorphWeightHash(MorphState, m, nameHash, weight))
    /\ UNCHANGED nodeVars
    /\ UNCHANGED notMorphVars
    /\ last' = MorphCall(m, FirstMorph(morphs_[m], "nameHash", nameHash), weight)

CallResetMorphWeights(m) ==
    /\ StoreMorphState(ResetMorphWeights(MorphState, m))
    /\ UNCHANGED nodeVars
    /\ UNCHANGED notMorphVars
    /\ last' = [op |-> "ResetMorphWeights", model |-> m]

CallSetMorphsAttr(m, value) ==
    /\ StoreMorphState(SetMorphsAttr(MorphState, m, value))
    /\ UNCHANGED nodeVars
    /\ UNCHANGED notMorphVars
    /\ last' = [op |-> "SetMorphsAttr", model |-> m]

\* AnimatedModel::UpdateGeometry, the morph part.
CallUpdateMorphs(m) ==
    /\ morphsDirty_[m]
    /\ StoreMorphState(UpdateMorphs(MorphState, m))
    /\ UNCHANGED nodeVars
    /\ UNCHANGED notMorphVars
    /\ last' = [op |-> "UpdateMorphs", model |-> m]

NextMorph ==
    \/ \E m \in Models, index \in MorphIndices, w \in Weights : CallSetMorphWeight(m, index, w)
    \/ \E m \in Models, name \in MorphNames, w \in Weights : CallSetMorphWeightName(m, name, w)
    \/ \E m \in Models, h \in NameHashes, w \in Weights : CallSetMorphWeightHash(m, h, w)
    \/ \E m \in Models : CallResetMorphWeights(m)
    \/ \E m \in Models, value \in AttrValues : CallSetMorphsAttr(m, value)
    \/ \E m \in Models : CallUpdateMorphs(m)

(***************************************************************************)
(* The node's AnimatedModel components: attachment and the master role     *)
(***************************************************************************)
\* Node::GetComponent<AnimatedModel>(): the first attached one, 0 for none.
GetComponent(comps) == IF Len(comps) = 0 THEN 0 ELSE comps[1]

\* Node::RemoveComponent: the list without component m.
WithoutComponent(comps, m) == SelectSeq(comps, LAMBDA c : c # m)

IsAttached(m) == \E pos \in 1..Len(components) : components[pos] = m

\* Variant of OnNodeSet with a slip: the flag is left as it was.
OnNodeSet_KeepsFlag(master, comps, m) == master

\* AnimatedModel::OnNodeSet, the new isMaster_ of component m; comps is the
\* node's list once m is in it, empty when m has no node.
OnNodeSet(master, comps, m) ==
    IF Len(comps) > 0 THEN GetComponent(comps) = m ELSE master

\* Variant of OnWorldBoundingBoxUpdate with a slip: any instance that finds a
\* master on the node takes the role.
OnWorldBoundingBoxUpdate_AnyPromotes(master, comps, m) ==
    IF master THEN TRUE ELSE GetComponent(comps) # 0

\* AnimatedModel::OnWorldBoundingBoxUpdate, the new isMaster_ of component m.
OnWorldBoundingBoxUpdate(master, comps, m) ==
    IF master THEN TRUE ELSE GetComponent(comps) = m

\* Node::AddComponent: m joins the end of the list, then OnNodeSet runs.
AddComponent(m) ==
    /\ ~IsAttached(m)
    /\ m \notin destroyed
    /\ components' = Append(components, m)
    /\ isMaster_' = [isMaster_ EXCEPT ![m] = OnNodeSet(isMaster_[m], components', m)]
    /\ last' = [op |-> "AddComponent", model |-> m]
    /\ UNCHANGED <<destroyed, promotionOwed, morphs_, morphsDirty_, modelAnimator_>>
    /\ UNCHANGED notMorphVars

\* What the removal of m from the node does to the history variable.
PromotionOwedWithout(m) ==
    IF GetComponent(components) = m THEN Len(components) > 1 ELSE promotionOwed

\* Node::RemoveComponent of a component that stays alive: OnNodeSet runs with no
\* node.
RemoveComponent(m) ==
    /\ IsAttached(m)
    /\ components' = WithoutComponent(components, m)
    /\ isMaster_' = [isMaster_ EXCEPT ![m] = OnNodeSet(isMaster_[m], <<>>, m)]
    /\ promotionOwed' = PromotionOwedWithout(m)
    /\ last' = [op |-> "RemoveComponent", model |-> m]
    /\ UNCHANGED <<destroyed, morphs_, morphsDirty_, modelAnimator_>>
    /\ UNCHANGED notMorphVars

\* A component is destroyed, attached or not. (The destructor removes the bone
\* nodes when no AnimatedModel is left on the node.)
DestroyComponent(m) ==
    /\ m \notin destroyed
    /\ components' = WithoutComponent(components, m)
    /\ destroyed' = destroyed \cup {m}
    /\ promotionOwed' = IF IsAttached(m) THEN PromotionOwedWithout(m) ELSE promotionOwed
    /\ last' = [op |-> "DestroyComponent", model |-> m]
    /\ UNCHANGED <<isMaster_, morphs_, morphsDirty_, modelAnimator_>>
    /\ UNCHANGED notMorphVars

\* Drawable::GetWorldBoundingBox of an attached component whose world bounding
\* box is dirty: AnimatedModel::OnWorldBoundingBoxUpdate runs.
WorldBoundingBoxUpdate(m) ==
    /\ IsAttached(m)
    /\ isMaster_' = [isMaster_ EXCEPT ![m] = OnWorldBoundingBoxUpdate(isMaster_[m], components, m)]
    /\ promotionOwed' = (promotionOwed /\ GetComponent(components) # m)
    /\ last' = [op |-> "OnWorldBoundingBoxUpdate", model |-> m,
                promoted |-> ~isMaster_[m] /\ isMaster_'[m]]
    /\ UNCHANGED <<components, destroyed, morphs_, morphsDirty_, modelAnimator_>>
    /\ UNCHANGED notMorphVars

NextNode ==
    \/ \E m \in Models : AddComponent(m)
    \/ \E m \in Models : RemoveComponent(m)
    \/ \E m \in Models : DestroyComponent(m)
    \/ \E m \in Models : WorldBoundingBoxUpdate(m)

(***************************************************************************)
(* Matrices and transforms. A matrix is an affine map x |-> a*x + b of the *)
(* line, composed like Matrix3x4 (the right factor is applied first);      *)
(* these maps do not commute. A transform is a position, a rotation (1 or  *)
(* -1) and a scale.                                                        *)
(***************************************************************************)
Matrix(a, b) == [a |-> a, b |-> b]
IDENTITY == Matrix(1, 0)

\* Matrix3x4::operator*(const Matrix3x4&)
Mul(lhs, rhs) == Matrix(lhs.a * rhs.a, lhs.a * rhs.b + lhs.b)

\* Matrix3x4::Translation
Translation(m) == m.b

Transform(position, rotation, scale) ==
    [position_ |-> position, rotation_ |-> rotation, scale_ |-> scale]

\* Transform::ToMatrix3x4: scale, then rotate, then translate.
ToMatrix3x4(t) == Matrix(t.rotation_ * t.scale_, t.position_)

\* World transforms given to the node: a translation and a reflection.
WorldTransforms == {Matrix(1, 1), Matrix(0 - 1, 0)}

\* Local transforms given to bones: a translation by one, and a reflection
\* that doubles.
LocalTransforms == {Transform(1, 1, 1), Transform(0, 0 - 1, 2)}

(***************************************************************************)
(* Model resources                                                         *)
(***************************************************************************)
\* A bone of a resource's skeleton; parentIndex_ counts from 0 and is the
\* bone's own index for a root.
AssetBone(model, index, parentIndex) ==
    [name_ |-> <<model, index>>,
     parentIndex_ |-> parentIndex,
     initial |-> Transform(1, 1, 1),
     offsetMatrix_ |-> Matrix(IF index % 2 = 0 THEN 0 - 1 ELSE 1, 0 - (index + 1)),
     \* models made for one node name their bones alike: the hash depends on
     \* the bone's place only
     nameHash_ |-> index + 1,
     collisionMask_ |-> {},
     radius_ |-> 0,
     boundingBox_ |-> {},
     animated_ |-> TRUE]

NoModel == [name |-> 0, bones |-> <<>>, order |-> <<>>, mappings |-> <<>>, morphs |-> <<>>]

\* The model the first component is given at start: morphs, no skeleton.
StaticAsset ==
    [name |-> 1, bones |-> <<>>, order |-> <<>>, mappings |-> <<>>, morphs |-> ModelMorphs(1)]

\* Skinned models whose skeleton is a chain. The first has no geometry bone
\* mappings; the second maps, in geometry 0 every bone in reverse order, in
\* geometry 1 the last bone alone and in geometry 2 nothing; the third has one
\* bone less and empty mappings only.
SkinAsset(k) ==
    LET n == IF k = 3 THEN MaxSkinBones - 1 ELSE MaxSkinBones
    IN  [name |-> 10 + k,
         bones |-> [i \in 1..n |-> AssetBone(10 + k, i - 1, IF i = 1 THEN 0 ELSE i - 2)],
         order |-> [i \in 1..n |-> i - 1],
         mappings |-> CASE k = 1 -> <<>>
                        [] k = 2 -> <<[j \in 1..n |-> n - j], <<n - 1>>, <<>>>>
                        [] OTHER -> <<<<>>, <<>>>>,
         morphs |-> ModelMorphs(1)]

SkinAssets == {SkinAsset(k) : k \in 1..3}

RECURSIVE ReachesRoot(_, _, _)
\* Following parent indices from bone index i (from 0) ends in a root within
\* the given number of steps.
ReachesRoot(parents, i, steps) ==
    \/ parents[i + 1] = i
    \/ steps > 0 /\ ReachesRoot(parents, parents[i + 1], steps - 1)

\* Position (from 1) of bone index in a processing order.
OrderPosition(order, index) == CHOOSE k \in 1..Len(order) : order[k] = index

\* Skeleton's invariant: the processing order holds every bone once, and every
\* bone after its parent.
ParentsFirst(parents, order) ==
    /\ \A index \in 0..(Len(parents) - 1) : \E k \in 1..Len(order) : order[k] = index
    /\ \A index \in 0..(Len(parents) - 1) :
          parents[index + 1] # index =>
              OrderPosition(order, parents[index + 1]) < OrderPosition(order, index)

\* Skinned models with any skeleton of NumBones bones: any forest, with any
\* processing order that has parents first.
BoneAssets ==
    {[name |-> 20,
      bones |-> [i \in 1..NumBones |-> AssetBone(20, i - 1, parents[i])],
      order |-> order,
      mappings |-> <<>>,
      morphs |-> ModelMorphs(1)] :
        <<parents, order>> \in
            {po \in [1..NumBones -> 0..(NumBones - 1)] \X [1..NumBones -> 0..(NumBones - 1)] :
                /\ \A i \in 0..(NumBones - 1) : ReachesRoot(po[1], i, NumBones)
                /\ ParentsFirst(po[1], po[2])}}

(***************************************************************************)
(* Skinning: skin matrices and the per-geometry alias table                *)
(***************************************************************************)
\* ea::vector::resize: the elements kept, new ones default-constructed.
Resize(vector, n, default) ==
    [i \in 1..n |-> IF i <= Len(vector) THEN vector[i] ELSE default]

RECURSIVE SlotsFrom(_, _, _)
\* The (geometry, slot) pairs of the mappings in the order of the two loops of
\* SetGeometryBoneMappings, from geometry g, slot j on (both from 1).
SlotsFrom(mappings, g, j) ==
    IF g > Len(mappings) THEN <<>>
    ELSE IF j > Len(mappings[g]) THEN SlotsFrom(mappings, g + 1, 1)
    ELSE <<<<g, j>>>> \o SlotsFrom(mappings, g, j + 1)

NoGeometrySkin == [matrices |-> <<>>, ptrs |-> <<>>]

\* Variant of SetGeometryBoneMappings with a slip: a slot is filed under its own
\* local index instead of the bone it maps.
SetGeometryBoneMappings_ByLocalSlot(mappings, numBones, softwareSkinning) ==
    IF Len(mappings) = 0 THEN NoGeometrySkin
    ELSE IF \A g \in 1..Len(mappings) : Len(mappings[g]) = 0 THEN NoGeometrySkin
    ELSE IF softwareSkinning THEN NoGeometrySkin
    ELSE [matrices |-> [g \in 1..Len(mappings) |->
                            [j \in 1..Len(mappings[g]) |-> IDENTITY]],
          ptrs |-> [b \in 1..numBones |->
                        SelectSeq(SlotsFrom(mappings, 1, 1),
                                  LAMBDA p : p[2] - 1 = b - 1)]]

\* AnimatedModel::SetGeometryBoneMappings: the per-geometry matrices and the
\* alias table built from the mappings.
SetGeometryBoneMappings(mappings, numBones, softwareSkinning) ==
    IF Len(mappings) = 0 THEN NoGeometrySkin
    ELSE IF \A g \in 1..Len(mappings) : Len(mappings[g]) = 0 THEN NoGeometrySkin
    ELSE IF softwareSkinning THEN NoGeometrySkin
    ELSE [matrices |-> [g \in 1..Len(mappings) |->
                            [j \in 1..Len(mappings[g]) |-> IDENTITY]],
          ptrs |-> [b \in 1..numBones |->
                        SelectSeq(SlotsFrom(mappings, 1, 1),
                                  LAMBDA p : mappings[p[1]][p[2]] = b - 1)]]

RECURSIVE BoneNodeWorld(_, _, _, _)
\* World transform of the node of bone i (from 1): SetSkeleton puts the node of
\* a root bone below the model's node and every other below its parent's.
BoneNodeWorld(bones, transforms, modelWorld, i) ==
    LET parentIndex == bones[i].parentIndex_
    IN  IF parentIndex # i - 1 /\ parentIndex < Len(bones)
        THEN Mul(BoneNodeWorld(bones, transforms, modelWorld, parentIndex + 1),
                 ToMatrix3x4(transforms[i]))
        ELSE Mul(modelWorld, ToMatrix3x4(transforms[i]))

\* Variant of the skin matrix of one bone with a slip: the factors are multiplied
\* in the wrong order.
BoneSkinMatrix_OffsetFirst(bone, world, modelWorld) ==
    IF bone.node THEN Mul(bone.offsetMatrix_, world) ELSE modelWorld

\* UpdateSkinning, the matrix of one bone: its node's world transform times the
\* offset matrix, or the model's world transform when the bone has no node.
BoneSkinMatrix(bone, world, modelWorld) ==
    IF bone.node THEN Mul(world, bone.offsetMatrix_) ELSE modelWorld

RECURSIVE CopyToSlots(_, _, _, _)
\* The inner loop of UpdateSkinning: *geometrySkinMatrixPtrs_[i][j] = skinMatrices_[i]
\* for j = k.. (from 1).
CopyToSlots(matrices, ptrs, k, value) ==
    IF k > Len(ptrs) THEN matrices
    ELSE CopyToSlots([matrices EXCEPT ![ptrs[k][1]][ptrs[k][2]] = value], ptrs, k + 1, value)

RECURSIVE SkinBonesFrom(_, _, _, _, _, _, _)
\* The loop of UpdateSkinning over the bones from index i (from 1) on.
SkinBonesFrom(skin, matrices, ptrs, bones, transforms, modelWorld, i) ==
    IF i > Len(bones) THEN [skin |-> skin, matrices |-> matrices]
    ELSE LET value == BoneSkinMatrix(bones[i],
                                     BoneNodeWorld(bones, transforms, modelWorld, i),
                                     modelWorld)
             skin1 == [skin EXCEPT ![i] = value]
             matrices1 == IF Len(matrices) = 0
                          THEN matrices
                          ELSE CopyToSlots(matrices, ptrs[i], 1, value)
         IN  SkinBonesFrom(skin1, matrices1, ptrs, bones, transforms, modelWorld, i + 1)

\* AnimatedModel::UpdateSkinning: the skin matrices and per-geometry matrices.
UpdateSkinning(skin, matrices, ptrs, bones, transforms, modelWorld) ==
    SkinBonesFrom(skin, matrices, ptrs, bones, transforms, modelWorld, 1)

(***************************************************************************)
(* Bone transform buffer: local transforms and their composition           *)
(***************************************************************************)
\* The dirty markers of a ModelAnimationOutput: no channel, or the channels a
\* track wrote.
CHANNEL_NONE == "none"
CHANNEL_ALL == "all"

\* ModelAnimationOutput, default-constructed.
DefaultOutput ==
    [dirty_ |-> CHANNEL_NONE, localToParent_ |-> Transform(0, 1, 1),
     localToComponent_ |-> IDENTITY]

\* Variant of InitializeLocalBoneTransforms with a slip: reset is not looked at.
InitializeLocalBoneTransforms_IgnoresReset(data, bones, transforms, reset) ==
    [i \in 1..Len(data) |->
        IF i <= Len(bones)
        THEN [data[i] EXCEPT !.dirty_ = CHANNEL_NONE,
                             !.localToParent_ =
                  IF bones[i].node THEN transforms[i] ELSE bones[i].initial]
        ELSE data[i]]

\* AnimatedModel::InitializeLocalBoneTransforms
InitializeLocalBoneTransforms(data, bones, transforms, reset) ==
    [i \in 1..Len(data) |->
        IF i <= Len(bones)
        THEN [data[i] EXCEPT !.dirty_ = CHANNEL_NONE,
                             !.localToParent_ =
                  IF ~reset /\ bones[i].node THEN transforms[i] ELSE bones[i].initial]
        ELSE data[i]]

\* Variant of CalculateAnimations that does not test the animation source.
CalculateAnimations_NoSourceTest(data, track) ==
    IF track.bone \in 1..Len(data)
    THEN [data EXCEPT ![track.bone].localToParent_ = track.transform,
                      ![track.bone].dirty_ = CHANNEL_ALL]
    ELSE data

\* AnimatedModel::CalculateAnimations, what it writes to the buffer: with an
\* animation source, AnimationState::CalculateModelTracks of its animation
\* states: the track, if any, writes the local transform of its bone
\* (track.bone from 1, 0 for none) and marks it; without one, nothing.
CalculateAnimations(data, track) ==
    IF animationStateSource_ /\ track.bone \in 1..Len(data)
    THEN [data EXCEPT ![track.bone].localToParent_ = track.transform,
                      ![track.bone].dirty_ = CHANNEL_ALL]
    ELSE data

RECURSIVE ComposeFrom_LocalFirst(_, _, _, _)
\* Variant of the composition loop with a slip: the local transform is the left
\* factor.
ComposeFrom_LocalFirst(data, bones, order, k) ==
    IF k > Len(order) THEN data
    ELSE LET boneIndex == order[k]
             local == ToMatrix3x4(data[boneIndex + 1].localToParent_)
             parentIndex == bones[boneIndex + 1].parentIndex_
             composed == IF parentIndex = boneIndex
                         THEN local
                         ELSE Mul(local, data[parentIndex + 1].localToComponent_)
         IN  ComposeFrom_LocalFirst([data EXCEPT ![boneIndex + 1].localToComponent_ = composed],
                                    bones, order, k + 1)

RECURSIVE ComposeFrom(_, _, _, _)
\* The loop of CalculateFinalBoneTransforms from position k (from 1) of the
\* processing order on.
ComposeFrom(data, bones, order, k) ==
    IF k > Len(order) THEN data
    ELSE LET boneIndex == order[k]
             local == ToMatrix3x4(data[boneIndex + 1].localToParent_)
             parentIndex == bones[boneIndex + 1].parentIndex_
             composed == IF parentIndex = boneIndex
                         THEN local
                         ELSE Mul(data[parentIndex + 1].localToComponent_, local)
         IN  ComposeFrom([data EXCEPT ![boneIndex + 1].localToComponent_ = composed],
                         bones, order, k + 1)

\* AnimatedModel::CalculateFinalBoneTransforms
CalculateFinalBoneTransforms(data, bones, order) == ComposeFrom(data, bones, order, 1)

\* AnimatedModel::ApplyBoneTransformsToNodes: the new transforms of the bone nodes.
ApplyBoneTransformsToNodes(data, bones, transforms) ==
    [i \in 1..Len(bones) |->
        IF bones[i].node THEN data[i].localToParent_ ELSE transforms[i]]

(***************************************************************************)
(* Bone collision information: radius and bounding box                     *)
(*                                                                         *)
(* A bounding box is modelled in one dimension by the set of the integer   *)
(* points it holds: the empty set is the undefined box, an interval a..b   *)
(* the box from a to b.                                                    *)
(***************************************************************************)
BONECOLLISION_SPHERE == "sphere"
BONECOLLISION_BOX == "box"

Infimum(S) == CHOOSE x \in S : \A y \in S : x <= y
Supremum(S) == CHOOSE x \in S : \A y \in S : x >= y

\* BoundingBox::Defined
Defined(box) == box # {}

\* BoundingBox::Merge(const BoundingBox&): the smallest box holding both.
Merge(box, other) ==
    IF ~Defined(other) THEN box
    ELSE IF ~Defined(box) THEN other
    ELSE Infimum(box \cup other)..Supremum(box \cup other)

\* boundingBox_.Size().Length() < M_EPSILON: a defined box without extent.
ZeroSize(box) == Defined(box) /\ Supremum(box) - Infimum(box) = 0

\* Collision information met in the assets: a sphere alone, a box alone, both,
\* values carried without their flags, a box flag on an undefined box, and a
\* dummy bone with flags and no extent.
CollisionInfos ==
    <<[collisionMask_ |-> {BONECOLLISION_SPHERE}, radius_ |-> MaxExtent, boundingBox_ |-> {}],
      [collisionMask_ |-> {BONECOLLISION_BOX}, radius_ |-> 0, boundingBox_ |-> 0..MaxExtent],
      [collisionMask_ |-> {BONECOLLISION_SPHERE, BONECOLLISION_BOX}, radius_ |-> 1,
       boundingBox_ |-> (0 - 1)..0],
      [collisionMask_ |-> {}, radius_ |-> MaxExtent,
       boundingBox_ |-> (0 - MaxExtent)..MaxExtent],
      [collisionMask_ |-> {BONECOLLISION_BOX}, radius_ |-> 0, boundingBox_ |-> {}],
      [collisionMask_ |-> {BONECOLLISION_SPHERE, BONECOLLISION_BOX}, radius_ |-> 0,
       boundingBox_ |-> 0..0]>>

WithCollision(bone, info) ==
    [bone EXCEPT !.collisionMask_ = info.collisionMask_,
                 !.radius_ = info.radius_,
                 !.boundingBox_ = info.boundingBox_]

\* Skinned models of two bones, a root and its child, that differ in the
\* collision information of the root.
BoundsAsset(k) ==
    [name |-> 20 + k,
     bones |-> <<WithCollision(AssetBone(20 + k, 0, 0), CollisionInfos[k]),
                 WithCollision(AssetBone(20 + k, 1, 0), CollisionInfos[1])>>,
     order |-> <<0, 1>>,
     mappings |-> <<>>,
     morphs |-> <<>>]

BoundsAssets == {BoundsAsset(k) : k \in 1..Len(CollisionInfos)}

\* The skeletons a sibling component is given: no bone, or one bone of either
\* name hash with any collision information.
SiblingSkeletons ==
    {<<>>} \cup {<<WithCollision(AssetBone(30, index, index), CollisionInfos[k])>> :
                    index \in 0..1, k \in 1..Len(CollisionInfos)}

NoBone == [nameHash_ |-> 0]

\* Skeleton::GetBone(StringHash): the first bone of that name hash, if any.
GetBone(bones, nameHash) ==
    IF \E i \in 1..Len(bones) : bones[i].nameHash_ = nameHash
    THEN bones[Infimum({i \in 1..Len(bones) : bones[i].nameHash_ = nameHash})]
    ELSE NoBone

\* FinalizeBoneBoundingBoxes, the reset of one bone to the model resource's.
ResetBone(bone, modelBone) == WithCollision(bone, modelBone)

\* A variant of MergeBone that takes the other bone's volume over.
MergeBone_TakesOver(bone, otherBone) ==
    IF otherBone = NoBone THEN bone
    ELSE LET sphere == BONECOLLISION_SPHERE \in otherBone.collisionMask_
             box == BONECOLLISION_BOX \in otherBone.collisionMask_
         IN  [bone EXCEPT
                !.collisionMask_ = @ \cup (IF sphere THEN {BONECOLLISION_SPHERE} ELSE {})
                                     \cup (IF box THEN {BONECOLLISION_BOX} ELSE {}),
                !.radius_ = IF sphere THEN otherBone.radius_ ELSE @,
                !.boundingBox_ = IF box THEN otherBone.boundingBox_ ELSE @]

\* FinalizeBoneBoundingBoxes, the merge of the matching bone of another model.
MergeBone(bone, otherBone) ==
    IF otherBone = NoBone THEN bone
    ELSE LET sphere == BONECOLLISION_SPHERE \in otherBone.collisionMask_
             box == BONECOLLISION_BOX \in otherBone.collisionMask_
         IN  [bone EXCEPT
                !.collisionMask_ = @ \cup (IF sphere THEN {BONECOLLISION_SPHERE} ELSE {})
                                     \cup (IF box THEN {BONECOLLISION_BOX} ELSE {}),
                !.radius_ = IF sphere THEN Max(@, otherBone.radius_) ELSE @,
                !.boundingBox_ = IF box
                                 THEN IF Defined(@) THEN Merge(@, otherBone.boundingBox_)
                                      ELSE otherBone.boundingBox_
                                 ELSE @]

\* Variant of RemoveDummy that keeps the sphere flag of a bone without radius.
RemoveDummy_BoxOnly(bone) ==
    [bone EXCEPT
       !.collisionMask_ =
          @ \ (IF ZeroSize(bone.boundingBox_) THEN {BONECOLLISION_BOX} ELSE {})]

\* FinalizeBoneBoundingBoxes, the removal of collision flags from dummy bones.
RemoveDummy(bone) ==
    [bone EXCEPT
       !.collisionMask_ =
          @ \ ((IF ZeroSize(bone.boundingBox_) THEN {BONECOLLISION_BOX} ELSE {})
               \cup (IF bone.radius_ = 0 THEN {BONECOLLISION_SPHERE} ELSE {}))]

RECURSIVE MergeOthers(_, _, _)
\* The bones after the skeletons others[k..] have been merged in.
MergeOthers(bones, others, k) ==
    IF k > Len(others) THEN bones
    ELSE MergeOthers([j \in 1..Len(bones) |->
                         MergeBone(bones[j], GetBone(others[k], bones[j].nameHash_))],
                     others, k + 1)

\* AnimatedModel::FinalizeBoneBoundingBoxes on a component whose skeleton has
\* these bones and whose model is the given one; others are the skeletons of
\* the other AnimatedModel components of the node, in attachment order.
FinalizeBoneBoundingBoxes(bones, model, others) ==
    LET reset == IF model # NoModel
                 THEN [i \in 1..Len(bones) |->
                          IF i <= Len(model.bones) THEN ResetBone(bones[i], model.bones[i])
                          ELSE bones[i]]
                 ELSE bones
        merged == IF Len(others) + 1 > 1 THEN MergeOthers(reset, others, 1) ELSE bones
    IN  [i \in 1..Len(merged) |-> RemoveDummy(merged[i])]

(***************************************************************************)
(* The bone bounding box. boneBoundingBox_ and worldBoundingBox_ hold their *)
(* points in halves of the unit, so that half a radius is a whole number:  *)
(* the box from -1 to 1 is the set -2..2.                                  *)
(***************************************************************************)
\* A bone's box, which is in units, in halves of the unit.
InHalves(box) == IF Defined(box) THEN (2 * Infimum(box))..(2 * Supremum(box)) ELSE {}

\* BoundingBox::Transformed(const Matrix3x4&) of a box in halves of the unit:
\* the box of the images of its corners.
Transformed(box, m) ==
    IF Defined(box)
    THEN LET lo == m.a * Infimum(box) + 2 * m.b
             hi == m.a * Supremum(box) + 2 * m.b
         IN  (IF lo < hi THEN lo ELSE hi)..(IF lo < hi THEN hi ELSE lo)
    ELSE {}

\* The box of Sphere(center, radius): from center - radius to center + radius,
\* the center in units and the radius in halves of the unit.
SphereBox(center, radius) == (2 * center - radius)..(2 * center + radius)

\* Model::GetBoundingBox: the model resources here have the box from -1 to 1,
\* and no model has none.
GetBoundingBox(model) == IF model = NoModel THEN {} ELSE (0 - 2)..2

\* Variant of BoneVolume that takes the whole radius.
BoneVolume_WholeRadius(bone, transform) ==
    IF BONECOLLISION_BOX \in bone.collisionMask_
    THEN Transformed(InHalves(bone.boundingBox_), transform)
    ELSE IF BONECOLLISION_SPHERE \in bone.collisionMask_
    THEN SphereBox(Translation(transform), 2 * bone.radius_)
    ELSE {}

\* Variant of BoneVolume that looks at the sphere first.
BoneVolume_SphereFirst(bone, transform) ==
    IF BONECOLLISION_SPHERE \in bone.collisionMask_
    THEN SphereBox(Translation(transform), bone.radius_)
    ELSE IF BONECOLLISION_BOX \in bone.collisionMask_
    THEN Transformed(InHalves(bone.boundingBox_), transform)
    ELSE {}

\* CalculateLocalBoundingBox, what one bone adds: its hitbox transformed if it
\* has one, else the sphere at the transform's translation with half the
\* radius (radius_ * 0.5f is radius_ halves of the unit), else nothing.
BoneVolume(bone, transform) ==
    IF BONECOLLISION_BOX \in bone.collisionMask_
    THEN Transformed(InHalves(bone.boundingBox_), transform)
    ELSE IF BONECOLLISION_SPHERE \in bone.collisionMask_
    THEN SphereBox(Translation(transform), bone.radius_)
    ELSE {}

RECURSIVE MergeBoneVolumes(_, _, _, _)
\* CalculateLocalBoundingBox, the loop from bone i on.
MergeBoneVolumes(box, data, bones, i) ==
    IF i > Len(bones) THEN box
    ELSE MergeBoneVolumes(Merge(box, BoneVolume(bones[i], data[i].localToComponent_)),
                          data, bones, i + 1)

\* AnimatedModel::CalculateLocalBoundingBox, the box it leaves in
\* boneBoundingBox_; data are the transforms CalculateFinalBoneTransforms has
\* composed. Without bones the box is the point at the origin.
CalculateLocalBoundingBox(data, bones) ==
    IF Len(bones) = 0 THEN {0} ELSE MergeBoneVolumes({}, data, bones, 1)

\* The skeletons of the components of the node other than m, in attachment order.
OtherSkeletons(comps, skeletons, m) ==
    LET rest == WithoutComponent(comps, m)
    IN  [k \in 1..Len(rest) |-> skeletons[rest[k]]]

(***************************************************************************)
(* The first component of the node: its model, skeleton and bone nodes     *)
(***************************************************************************)
\* The bones of a skeleton just defined, each with its node created.
CreateBones(bones) ==
    [i \in 1..Len(bones) |->
        [name_ |-> bones[i].name_, parentIndex_ |-> bones[i].parentIndex_,
         initial |-> bones[i].initial, offsetMatrix_ |-> bones[i].offsetMatrix_,
         nameHash_ |-> bones[i].nameHash_, collisionMask_ |-> bones[i].collisionMask_,
         radius_ |-> bones[i].radius_, boundingBox_ |-> bones[i].boundingBox_,
         animated_ |-> bones[i].animated_,
         node |-> TRUE]]

\* Skeleton::Define: the bones are copied and refer to no node.
Define(bones) ==
    LET created == CreateBones(bones)
    IN  [i \in 1..Len(bones) |-> [created[i] EXCEPT !.node = FALSE]]

\* SetSkeleton's test: the bone structure has stayed the same.
Compatible(dest, src) ==
    /\ Len(dest) = Len(src)
    /\ \A i \in 1..Len(dest) :
          /\ dest[i].node
          /\ dest[i].name_ = src[i].name_
          /\ dest[i].parentIndex_ = src[i].parentIndex_

\* Node::GetChild(name, true) for the bones of a skeleton: a bone finds its
\* node when the node of that name is still there.
FindBoneNodes(bones, current) ==
    [i \in 1..Len(bones) |->
        [bones[i] EXCEPT !.node =
            \E k \in 1..Len(current) : current[k].node /\ current[k].name_ = bones[i].name_]]

\* Variant of RetainBones that takes the animated flag from the new bones.
RetainBones_TakesAnimated(dest, src) ==
    [i \in 1..Len(dest) |-> [CreateBones(src)[i] EXCEPT !.node = dest[i].node]]

\* SetSkeleton, the loop over compatible bones: each takes the values of the
\* new bone and keeps its node and its animated flag.
RetainBones(dest, src) ==
    [i \in 1..Len(dest) |->
        [CreateBones(src)[i] EXCEPT !.node = dest[i].node,
                                    !.animated_ = dest[i].animated_]]

\* Variant of SetSkeletonRefused that lets a detached component create bones.
SetSkeletonRefused_Never(attached, createBones) == FALSE

\* SetSkeleton's first test: bone nodes cannot be created without a node.
SetSkeletonRefused(attached, createBones) == ~attached /\ createBones

\* AnimatedModel::SetSkeleton(skeleton, createBones) on the first component,
\* whose bones are current and whose bone nodes have the transforms given;
\* model is model_ at the time. The answer holds the skeleton, the processing
\* order and the bone node transforms afterwards, whether a bone node was
\* given a transform (which marks the component dirty), assignBonesPending_,
\* and whether the animation source was notified and the event
\* E_BONEHIERARCHYCREATED sent. Without createBones the nodes stay where they
\* are: a bone of the same place and name finds the transform again.
SetSkeletonTo(current, transforms, model, bones, order, createBones) ==
    LET kept == [refused |-> FALSE, compatible |-> FALSE, skeleton |-> current,
                 order |-> bonesOrder, transforms |-> transforms, marked |-> FALSE,
                 pending |-> assignBonesPending_, notified |-> FALSE, event |-> FALSE]
    IN  IF SetSkeletonRefused(IsAttached(1), createBones)
        THEN [kept EXCEPT !.refused = TRUE]
        ELSE IF isMaster_[1]
        THEN IF Compatible(current, bones)
             THEN [kept EXCEPT !.compatible = TRUE, !.skeleton = RetainBones(current, bones)]
             ELSE [refused |-> FALSE, compatible |-> FALSE,
                   skeleton |-> FinalizeBoneBoundingBoxes(
                                    IF createBones THEN CreateBones(bones) ELSE Define(bones),
                                    model, OtherSkeletons(components, otherSkeletons, 1)),
                   order |-> order,
                   transforms |->
                       [i \in 1..Len(bones) |->
                           IF ~createBones /\ i <= Len(current) /\ i <= Len(transforms)
                              /\ current[i].name_ = bones[i].name_
                           THEN transforms[i]
                           ELSE bones[i].initial],
                   marked |-> createBones /\ Len(bones) > 0,
                   pending |-> ~createBones,
                   notified |-> animationStateSource_,
                   event |-> TRUE]
        ELSE [kept EXCEPT !.skeleton = IF createBones
                                       THEN FindBoneNodes(Define(bones), current)
                                       ELSE Define(bones),
                          !.order = order,
                          !.pending = ~createBones]

\* Variant of SetModelRefused that lets a detached component take a model.
SetModelRefused_SameOnly(asset, model, attached) == asset.name = model.name

\* SetModel's first tests: the model is already set (the same resource, by
\* its name), or there is no node.
SetModelRefused(asset, model, attached) == asset.name = model.name \/ ~attached

\* The first component constructed, attached to the node and given a model
\* while the renderer skins in hardware.
ConstructSkin(asset) ==
    /\ model_ = asset
    /\ otherSkeletons = [m \in Models \ {1} |-> <<>>]
    /\ skeleton_ = FinalizeBoneBoundingBoxes(CreateBones(asset.bones), asset, <<>>)
    /\ bonesOrder = asset.order
    /\ boneNodeTransform = [i \in 1..Len(asset.bones) |-> asset.bones[i].initial]
    /\ nodeWorld = Matrix(1, 1)
    /\ skinMatrices_ = [i \in 1..Len(asset.bones) |-> IDENTITY]
    /\ skeletonData_ = [i \in 1..Len(asset.bones) |-> DefaultOutput]
    /\ geometryBoneMappings_ = asset.mappings
    /\ geometrySkinMatrices_ =
          SetGeometryBoneMappings(asset.mappings, Len(asset.bones), FALSE).matrices
    /\ geometrySkinMatrixPtrs_ =
          SetGeometryBoneMappings(asset.mappings, Len(asset.bones), FALSE).ptrs
    /\ skinningDirty_ = (Len(asset.bones) > 0)
    /\ softwareSkinning_ = FALSE
    /\ animationDirty_ = FALSE
    /\ boneBoundingBoxDirty_ = TRUE
    /\ forceAnimationUpdate_ = FALSE

\* The first component never in view, with nothing queued for it.
IdleView ==
    /\ viewFrameNumber_ = 0
    /\ updateInvisible_ = FALSE
    /\ everInView = FALSE
    /\ queuedTransforms = {}
    /\ markedForUpdate = FALSE

(***************************************************************************)
(* UI subsystem: the elements being dragged                                *)
(***************************************************************************)
\* Two elements of the application, so that one drag goes on while another
\* ends.
UIElements == {1, 2}
MouseButtons == {"MOUSEB_LEFT", "MOUSEB_RIGHT"}
\* The history counts the drag-end notifications of a drag up to this many.
MaxDragEnds == 2

\* A UIElement as the UI reads it: whether the WeakPtr to it is still valid,
\* IsEnabled() and IsVisible().
LiveElement == [alive |-> TRUE, enabled |-> TRUE, visible |-> TRUE]
ExpiredElement == [alive |-> FALSE, enabled |-> FALSE, visible |-> FALSE]
NoNotes == [begun |-> FALSE, ends |-> 0]

\* The drag state of the UI as one value: dragElements_ (a map from the
\* element to its DragData), the two counters, and the history of the
\* notifications sent for the current drag of each element.
DragState ==
    [dragElements |-> dragElements_, count |-> dragElementsCount_,
     confirmed |-> dragConfirmedCount_, notes |-> dragNotes]

\* UI::UI: no element is dragged.
IdleDrag ==
    /\ uiElements = [e \in UIElements |-> LiveElement]
    /\ dragElements_ = << >>
    /\ dragElementsCount_ = 0
    /\ dragConfirmedCount_ = 0
    /\ dragNotes = [e \in UIElements |-> NoNotes]

\* Variant of DragElementErase that decrements dragConfirmedCount_ whatever
\* the entry's dragBeginPending is.
DragElementErase_AlwaysConfirmed(st, e) ==
    IF DOMAIN st.dragElements = {} THEN st
    ELSE [st EXCEPT !.dragElements = [x \in DOMAIN st.dragElements \ {e} |-> st.dragElements[x]],
                    !.count = st.count - 1,
                    !.confirmed = st.confirmed - 1]

\* UI::DragElementErase: nothing on an empty map; otherwise the entry is
\* erased, dragElementsCount_ decremented, and dragConfirmedCount_ too when
\* the drag had begun.
DragElementErase(st, e) ==
    IF DOMAIN st.dragElements = {} THEN st
    ELSE [st EXCEPT !.dragElements = [x \in DOMAIN st.dragElements \ {e} |-> st.dragElements[x]],
                    !.count = st.count - 1,
                    !.confirmed = IF ~st.dragElements[e].dragBeginPending
                                    THEN st.confirmed - 1 ELSE st.confirmed]

\* OnDragBegin and E_DRAGBEGIN sent for the drag of e.
SendDragBegin(st, e) == [st EXCEPT !.notes[e].begun = TRUE]

\* OnDragEnd and E_DRAGEND sent for the drag of e.
SendDragEnd(st, e) ==
    [st EXCEPT !.notes[e].ends = IF @ < MaxDragEnds THEN @ + 1 ELSE @]

\* The drag-begin loop of UI::Update for one entry: an expired element is
\* erased, a begun drag skipped, and a pending drag whose timer has run out
\* begins.
UpdateDragEntry(st, e, elapsed) ==
    IF ~uiElements[e].alive THEN DragElementErase(st, e)
    ELSE IF ~st.dragElements[e].dragBeginPending THEN st
    ELSE IF e \in elapsed
         THEN SendDragBegin([st EXCEPT !.dragElements[e].dragBeginPending = FALSE,
                                       !.confirmed = st.confirmed + 1], e)
         ELSE st

\* The loop of UI::ProcessClickEnd for one entry.
ProcessClickEndEntry(st, e, button, cursorVisible) ==
    IF ~uiElements[e].alive \/ ~cursorVisible THEN DragElementErase(st, e)
    ELSE IF button \in st.dragElements[e].dragButtons
         THEN DragElementErase(
                  IF /\ uiElements[e].enabled /\ uiElements[e].visible
                     /\ ~st.dragElements[e].dragBeginPending
                    THEN SendDragEnd(st, e) ELSE st, e)
         ELSE st

\* The loop of UI::ProcessMove for one entry.  far: the cursor is at least
\* dragBeginDistance_ away from where the drag was started.  In the last
\* branch dragElement.Reset() resets the loop's own WeakPtr; the entry stays
\* in dragElements_.
ProcessMoveEntry(st, e, buttons, mouseGrabbed, far) ==
    IF ~uiElements[e].alive THEN DragElementErase(st, e)
    ELSE IF st.dragElements[e].dragButtons \cap buttons = {} THEN st
    ELSE IF uiElements[e].enabled /\ uiElements[e].visible
         THEN IF st.dragElements[e].dragBeginPending /\ ~mouseGrabbed /\ far
                THEN SendDragBegin([st EXCEPT !.dragElements[e].dragBeginPending = FALSE,
                                              !.confirmed = st.confirmed + 1], e)
                ELSE st
         ELSE SendDragEnd(st, e)

\* The loop of UI::ProcessDragCancel for one entry: a begun drag of a live,
\* enabled and visible element is cancelled and erased.
ProcessDragCancelEntry(st, e) ==
    IF /\ uiElements[e].alive /\ uiElements[e].enabled /\ uiElements[e].visible
       /\ ~st.dragElements[e].dragBeginPending
      THEN DragElementErase(st, e)
      ELSE st

\* The loops over dragElements_: the entries in todo are handled one after
\* the other (no handler touches another entry, so the order of the
\* unordered map does not show).
RECURSIVE UpdateDragLoop(_, _, _)
UpdateDragLoop(st, todo, elapsed) ==
    IF todo = {} THEN st
    ELSE LET e == CHOOSE x \in todo : \A y \in todo : x <= y
         IN  UpdateDragLoop(UpdateDragEntry(st, e, elapsed), todo \ {e}, elapsed)

RECURSIVE ProcessClickEndLoop(_, _, _, _)
ProcessClickEndLoop(st, todo, button, cursorVisible) ==
    IF todo = {} THEN st
    ELSE LET e == CHOOSE x \in todo : \A y \in todo : x <= y
         IN  ProcessClickEndLoop(ProcessClickEndEntry(st, e, button, cursorVisible),
                                 todo \ {e}, button, cursorVisible)

RECURSIVE ProcessMoveLoop(_, _, _, _, _)
ProcessMoveLoop(st, todo, buttons, mouseGrabbed, far) ==
    IF todo = {} THEN st
    ELSE LET e == CHOOSE x \in todo : \A y \in todo : x <= y
         IN  ProcessMoveLoop(ProcessMoveEntry(st, e, buttons, mouseGrabbed, far),
                             todo \ {e}, buttons, mouseGrabbed, far)

RECURSIVE ProcessDragCancelLoop(_, _)
ProcessDragCancelLoop(st, todo) ==
    IF todo = {} THEN st
    ELSE LET e == CHOOSE x \in todo : \A y \in todo : x <= y
         IN  ProcessDragCancelLoop(ProcessDragCancelEntry(st, e), todo \ {e})

\* The drag state st becomes the state of the UI.
SetDragState(st) ==
    /\ dragElements_' = st.dragElements
    /\ dragElementsCount_' = st.count
    /\ dragConfirmedCount_' = st.confirmed
    /\ dragNotes' = st.notes

\* UI::ProcessClickBegin with the cursor visible and an enabled element under
\* it (GetElementAt returns enabled, visible elements only; every other call
\* leaves the drag state alone).  The click handlers may destroy the element
\* (destroyedByHandler); otherwise an element not yet in dragElements_ gets
\* a DragData with dragBeginPending set and is counted, and an element
\* already there gets the button added when it is a new one (newButton:
\* always with the mouse, (buttons & button) == 0 under touch input).
ProcessClickBegin(element, button, cursorVisible, newButton, destroyedByHandler) ==
    /\ cursorVisible
    /\ uiElements[element].alive /\ uiElements[element].enabled /\ uiElements[element].visible
    /\ uiElements' = IF destroyedByHandler
                       THEN [uiElements EXCEPT ![element] = ExpiredElement] ELSE uiElements
    /\ LET st == DragState
       IN  SetDragState(
             IF destroyedByHandler THEN st
             ELSE IF element \notin DOMAIN dragElements_
               THEN [st EXCEPT !.dragElements =
                                   [x \in DOMAIN dragElements_ \cup {element} |->
                                       IF x = element
                                         THEN [dragBeginPending |-> TRUE, dragButtons |-> {button}]
                                         ELSE dragElements_[x]],
                               !.count = st.count + 1,
                               !.notes[element] = NoNotes]
             ELSE IF newButton
               THEN [st EXCEPT !.dragElements[element].dragButtons = @ \cup {button}]
             ELSE st)
    /\ UNCHANGED <<lodVars, morphVars, skinVars, animVars, viewVars, boundsVars,
                   last, graphics, modalVars, assignBonesPending_, animationStateSource_>>

\* UI::ProcessClickEnd.
ProcessClickEnd(button, cursorVisible) ==
    /\ SetDragState(ProcessClickEndLoop(DragState, DOMAIN dragElements_, button, cursorVisible))
    /\ UNCHANGED <<lodVars, morphVars, skinVars, animVars, viewVars, boundsVars,
                   last, graphics, uiElements, modalVars, assignBonesPending_, animationStateSource_>>

\* UI::ProcessMove: the loop runs with the cursor visible, a positive
\* dragElementsCount_ and a button held.
ProcessMove(buttons, cursorVisible, mouseGrabbed, far) ==
    /\ SetDragState(IF cursorVisible /\ dragElementsCount_ > 0 /\ buttons # {}
                      THEN ProcessMoveLoop(DragState, DOMAIN dragElements_, buttons, mouseGrabbed, far)
                      ELSE DragState)
    /\ UNCHANGED <<lodVars, morphVars, skinVars, animVars, viewVars, boundsVars,
                   last, graphics, uiElements, modalVars, assignBonesPending_, animationStateSource_>>

\* UI::ProcessDragCancel: nothing under touch input.
ProcessDragCancel(usingTouchInput) ==
    /\ SetDragState(IF usingTouchInput THEN DragState
                    ELSE ProcessDragCancelLoop(DragState, DOMAIN dragElements_))
    /\ UNCHANGED <<lodVars, morphVars, skinVars, animVars, viewVars, boundsVars,
                   last, graphics, uiElements, modalVars, assignBonesPending_, animationStateSource_>>

\* UI::Update, the part that touches the drag state: the time-based drag
\* begin, with a positive dragElementsCount_ and the mouse not grabbed.
\* elapsed: the elements whose dragBeginTimer has reached dragBeginInterval_.
\* (ProcessHover, called afterwards, erases expired entries only, and there
\* are none left then.)
UpdateDrag(mouseGrabbed, elapsed) ==
    /\ SetDragState(IF dragElementsCount_ > 0 /\ ~mouseGrabbed
                      THEN UpdateDragLoop(DragState, DOMAIN dragElements_, elapsed)
                      ELSE DragState)
    /\ UNCHANGED <<lodVars, morphVars, skinVars, animVars, viewVars, boundsVars,
                   last, graphics, uiElements, modalVars, assignBonesPending_, animationStateSource_>>

\* The application destroys an element: the WeakPtr keys of dragElements_
\* expire, the entry stays until a loop erases it.
DestroyElement(e) ==
    /\ uiElements[e].alive
    /\ uiElements' = [uiElements EXCEPT ![e] = ExpiredElement]
    /\ UNCHANGED <<lodVars, morphVars, skinVars, animVars, viewVars, boundsVars,
                   last, graphics, dragElements_, dragElementsCount_, dragConfirmedCount_,
                   dragNotes, modalVars, assignBonesPending_, animationStateSource_>>

\* UIElement::SetEnabled and UIElement::SetVisible called by the application.
SetEnabledVisible(e, enabled, visible) ==
    /\ uiElements[e].alive
    /\ uiElements' = [uiElements EXCEPT ![e].enabled = enabled, ![e].visible = visible]
    /\ UNCHANGED <<lodVars, morphVars, skinVars, animVars, viewVars, boundsVars,
                   last, graphics, dragElements_, dragElementsCount_, dragConfirmedCount_,
                   dragNotes, modalVars, assignBonesPending_, animationStateSource_>>

(***************************************************************************)
(* UI subsystem: modal elements                                            *)
(***************************************************************************)
rootElement_ == "rootElement_"
rootModalElement_ == "rootModalElement_"
NullElement == "nullptr"
\* The elements of the application: two windows and an element of another type.
Windows == {"window", "popup"}
ModalElements == Windows \cup {"button"}
UINodes == ModalElements \cup {rootElement_, rootModalElement_}
\* M_MAX_UNSIGNED (0xffffffff) as the largest number the checker holds: the
\* code only compares it with child counts and stores it.
M_MAX_UNSIGNED == 2147483647

VAR_ORIGIN == "Origin"
VAR_ORIGINAL_PARENT == "OriginalParent"
VAR_ORIGINAL_CHILD_INDEX == "OriginalChildIndex"
VAR_PARENT_CHANGED == "ParentChanged"
VarNames == {VAR_ORIGIN, VAR_ORIGINAL_PARENT, VAR_ORIGINAL_CHILD_INDEX, VAR_PARENT_CHANGED}
\* The variable map holds <<value>> for a key it has and Absent for a key it
\* does not have.
Absent == << >>
NoVars == [n \in VarNames |-> Absent]

\* The element tree as one value: parent_ and children_ of every element
\* and its variable map vars_.
UITree == [parent |-> parent_, children |-> children_, vars |-> vars_]

\* UI::UI: the two roots exist; the application's elements are created
\* without a parent and without variables.
IdleModal ==
    /\ parent_ = [n \in UINodes |-> NullElement]
    /\ children_ = [n \in UINodes |-> << >>]
    /\ vars_ = [n \in UINodes |-> NoVars]

\* UIElement::GetVar(name).GetPtr(): null when the key is absent.
GetVarPtr(t, e, name) == IF t.vars[e][name] = Absent THEN NullElement ELSE t.vars[e][name][1]

\* UIElement::GetVar(name).GetUInt(): 0 when the key is absent.
GetVarUInt(t, e, name) == IF t.vars[e][name] = Absent THEN 0 ELSE t.vars[e][name][1]

\* UIElement::SetVar.
SetVar(t, e, name, value) == [t EXCEPT !.vars[e][name] = <<value>>]

\* StringVariantMap::erase on the variable map of e.
EraseVar(t, e, name) == [t EXCEPT !.vars[e][name] = Absent]

\* UIElement::FindChild: the index of the child, M_MAX_UNSIGNED when it is
\* not a child.
FindChild(t, p, e) ==
    IF \E i \in 1..Len(t.children[p]) : t.children[p][i] = e
      THEN (CHOOSE i \in 1..Len(t.children[p]) : t.children[p][i] = e) - 1
      ELSE M_MAX_UNSIGNED

\* Whether a is e or one of the parents above e.
RECURSIVE IsSelfOrAbove(_, _, _)
IsSelfOrAbove(t, a, e) ==
    IF e = NullElement THEN FALSE
    ELSE IF e = a THEN TRUE
    ELSE IsSelfOrAbove(t, a, t.parent[e])

\* The sequence s without the element e.
Without(s, e) == SelectSeq(s, LAMBDA x : x # e)

\* The sequence s with e inserted at the 0-based index, at the end when the
\* index is not below the length.
InsertAt(s, index, e) ==
    IF index >= Len(s) THEN Append(s, e)
    ELSE SubSeq(s, 1, index) \o <<e>> \o SubSeq(s, index + 1, Len(s))

\* UIElement::InsertChild: nothing when e already is a child of p or p is e
\* or below e; otherwise e is inserted at the index among the children of p
\* and removed from its old parent.
InsertChild(t, p, index, e) ==
    IF t.parent[e] = p \/ IsSelfOrAbove(t, e, p) THEN t
    ELSE LET old == t.parent[e]
             removed == IF old = NullElement THEN t.children
                        ELSE [t.children EXCEPT ![old] = Without(@, e)]
         IN  [t EXCEPT !.children = [removed EXCEPT ![p] = InsertAt(t.children[p], index, e)],
                       !.parent[e] = p]

\* UIElement::SetParent: nothing for a null parent.
SetParent(t, e, p, index) == IF p = NullElement THEN t ELSE InsertChild(t, p, index, e)

\* The walk of SetModalElement from the origin element upwards: the element
\* whose parent is rootElement_, null when there is none.
RECURSIVE TopLevelParent(_, _)
TopLevelParent(t, element) ==
    IF element = NullElement THEN NullElement
    ELSE IF t.parent[element] = rootElement_ THEN element
    ELSE TopLevelParent(t, t.parent[element])

\* The enabling branch of UI::SetModalElement after its checks.
EnableModal(t, modalElement) ==
    LET currParent == t.parent[modalElement]
        t1 == SetVar(t, modalElement, VAR_ORIGINAL_PARENT, currParent)
        t2 == SetVar(t1, modalElement, VAR_ORIGINAL_CHILD_INDEX,
                     IF currParent # NullElement THEN FindChild(t1, currParent, modalElement)
                     ELSE M_MAX_UNSIGNED)
        t3 == SetParent(t2, modalElement, rootModalElement_, M_MAX_UNSIGNED)
        originElement == GetVarPtr(t3, modalElement, VAR_ORIGIN)
        element == TopLevelParent(t3, originElement)
    IN  IF originElement = NullElement \/ element = NullElement THEN t3
        ELSE LET oriParent == t3.parent[element]
                 t4 == SetVar(t3, originElement, VAR_PARENT_CHANGED, element)
                 t5 == SetVar(t4, element, VAR_ORIGINAL_PARENT, oriParent)
                 t6 == SetVar(t5, element, VAR_ORIGINAL_CHILD_INDEX,
                              IF oriParent # NullElement THEN FindChild(t5, oriParent, element)
                              ELSE M_MAX_UNSIGNED)
             IN  SetParent(t6, element, rootModalElement_, M_MAX_UNSIGNED)

\* Variant of DisableModal that keeps the element's bookkeeping variables.
DisableModal_KeepsVars(t, modalElement) ==
    SetParent(t, modalElement, GetVarPtr(t, modalElement, VAR_ORIGINAL_PARENT),
              GetVarUInt(t, modalElement, VAR_ORIGINAL_CHILD_INDEX))

\* The disabling branch of UI::SetModalElement after its checks.  vars is a
\* reference to the variable map of modalElement, so the assignment
\* vars = element->GetVars() copies the map of the top-level parent over
\* it, and the two erase calls that follow act on modalElement's map.
DisableModal(t, modalElement) ==
    LET t1 == SetParent(t, modalElement, GetVarPtr(t, modalElement, VAR_ORIGINAL_PARENT),
                        GetVarUInt(t, modalElement, VAR_ORIGINAL_CHILD_INDEX))
        t2 == EraseVar(EraseVar(t1, modalElement, VAR_ORIGINAL_PARENT),
                       modalElement, VAR_ORIGINAL_CHILD_INDEX)
        originElement == GetVarPtr(t2, modalElement, VAR_ORIGIN)
        element == IF originElement = NullElement THEN NullElement
                   ELSE GetVarPtr(t2, originElement, VAR_PARENT_CHANGED)
    IN  IF element = NullElement THEN t2
        ELSE LET t3 == EraseVar(t2, originElement, VAR_PARENT_CHANGED)
                 t4 == SetParent(t3, element, GetVarPtr(t3, element, VAR_ORIGINAL_PARENT),
                                 GetVarUInt(t3, element, VAR_ORIGINAL_CHILD_INDEX))
                 t5 == [t4 EXCEPT !.vars[modalElement] = t4.vars[element]]
             IN  EraseVar(EraseVar(t5, modalElement, VAR_ORIGINAL_PARENT),
                          modalElement, VAR_ORIGINAL_CHILD_INDEX)

\* Variant of SetModalElementOn that enables an element that already is a
\* child of the modal root.
SetModalElementOn_NoParentCheck(t, modalElement, enable) ==
    IF modalElement = NullElement THEN [tree |-> t, result |-> FALSE]
    ELSE IF modalElement \notin Windows THEN [tree |-> t, result |-> FALSE]
    ELSE IF enable
      THEN [tree |-> EnableModal(t, modalElement), result |-> TRUE]
      ELSE IF t.parent[modalElement] # rootModalElement_
             THEN [tree |-> t, result |-> FALSE]
             ELSE [tree |-> DisableModal(t, modalElement), result |-> TRUE]

\* UI::SetModalElement on the tree t: the tree afterwards and the value
\* returned.
SetModalElementOn(t, modalElement, enable) ==
    IF modalElement = NullElement THEN [tree |-> t, result |-> FALSE]
    ELSE IF modalElement \notin Windows THEN [tree |-> t, result |-> FALSE]
    ELSE IF enable
      THEN IF t.parent[modalElement] = rootModalElement_
             THEN [tree |-> t, result |-> FALSE]
             ELSE [tree |-> EnableModal(t, modalElement), result |-> TRUE]
      ELSE IF t.parent[modalElement] # rootModalElement_
             THEN [tree |-> t, result |-> FALSE]
             ELSE [tree |-> DisableModal(t, modalElement), result |-> TRUE]

\* The tree t becomes the element tree of the UI.
SetUITree(t) ==
    /\ parent_' = t.parent
    /\ children_' = t.children
    /\ vars_' = t.vars

\* UI::SetModalElement.  The step records the parent and the child index the
\* element had before the call.
SetModalElement(modalElement, enable) ==
    /\ LET r == SetModalElementOn(UITree, modalElement, enable)
       IN  /\ SetUITree(r.tree)
           /\ last' = [op |-> "SetModalElement", element |-> modalElement, enable |-> enable,
                       result |-> r.result,
                       parent |-> IF modalElement = NullElement THEN NullElement
                                  ELSE parent_[modalElement],
                       index |-> IF modalElement = NullElement THEN M_MAX_UNSIGNED
                                 ELSE IF parent_[modalElement] = NullElement THEN M_MAX_UNSIGNED
                                 ELSE FindChild(UITree, parent_[modalElement], modalElement)]
    /\ UNCHANGED <<lodVars, morphVars, skinVars, animVars, viewVars, boundsVars,
                   graphics, dragVars, assignBonesPending_, animationStateSource_>>

\* The application puts an element below a parent: UIElement::InsertChild.
CallInsertChild(p, index, e) ==
    /\ SetUITree(InsertChild(UITree, p, index, e))
    /\ last' = [op |-> "InsertChild"]
    /\ UNCHANGED <<lodVars, morphVars, skinVars, animVars, viewVars, boundsVars,
                   graphics, dragVars, assignBonesPending_, animationStateSource_>>

\* The application marks a window as the popup of an origin element (as
\* DropDownList and Menu do): SetVar(VAR_ORIGIN, origin).
SetOrigin(e, origin) ==
    /\ SetUITree(SetVar(UITree, e, VAR_ORIGIN, origin))
    /\ last' = [op |-> "SetOrigin"]
    /\ UNCHANGED <<lodVars, morphVars, skinVars, animVars, viewVars, boundsVars,
                   graphics, dragVars, assignBonesPending_, animationStateSource_>>

\* The UI subsystem just constructed.
IdleUI == IdleDrag /\ IdleModal

\* The context of a running application: the Graphics subsystem exists, and
\* an animation source is connected to the component; no bone assignment is
\* pending.
IdleHost ==
    /\ graphics = TRUE
    /\ IdleUI
    /\ assignBonesPending_ = FALSE
    /\ animationStateSource_ = TRUE

\* The bounding boxes of a component just given its model: the bone bounding
\* box is the model's, the world bounding box is to be computed.
IdleBounds ==
    /\ boneBoundingBox_ = GetBoundingBox(model_)
    /\ worldBoundingBoxDirty_ = TRUE
    /\ worldBoundingBox_ = {}

IdleSkin == ConstructSkin(StaticAsset)
InitBones == \E asset \in BoneAssets : ConstructSkin(asset)

\* AnimatedModel::SetModel(model, createBones) on the first component with a
\* model that is not null, when model_ is current, called as op (by itself or
\* by the reload handler); useHardwareSkinning is the
\* renderer's setting at the time. The call returns at once when the model is
\* the one set or the component has no node.
SetModelFrom(op, current, asset, useHardwareSkinning, createBones) ==
    /\ asset # NoModel
    /\ IF SetModelRefused(asset, current, IsAttached(1))
       THEN /\ model_' = current
            /\ last' = [op |-> op, finalized |-> FALSE, refused |-> TRUE,
                        model |-> asset.name]
            /\ UNCHANGED <<skeleton_, otherSkeletons, bonesOrder, nodeWorld, boneNodeTransform,
                           skeletonData_, skinMatrices_, geometryBoneMappings_,
                           geometrySkinMatrices_, geometrySkinMatrixPtrs_, skinningDirty_,
                           softwareSkinning_>>
            /\ UNCHANGED <<animVars, morphs_, morphsDirty_, modelAnimator_,
                           assignBonesPending_, boneBoundingBox_, worldBoundingBoxDirty_>>
       ELSE LET r == SetSkeletonTo(skeleton_, boneNodeTransform, asset, asset.bones,
                                   asset.order, createBones)
                built == SetGeometryBoneMappings(asset.mappings, Len(asset.bones),
                                                 softwareSkinning_)
                copied == [MorphState EXCEPT !.animator[1] = FALSE,
                                             !.morphs[1] = asset.morphs]
            IN  /\ model_' = asset
                /\ geometryBoneMappings_' = asset.mappings
                /\ skeleton_' = r.skeleton
                /\ boneNodeTransform' = r.transforms
                /\ skinningDirty_' = (skinningDirty_ \/ r.marked)
                /\ assignBonesPending_' = r.pending
                /\ bonesOrder' = asset.order
                /\ skinMatrices_' = Resize(skinMatrices_, Len(asset.bones), IDENTITY)
                /\ skeletonData_' = Resize(skeletonData_, Len(asset.bones), DefaultOutput)
                \* SetGeometryBoneMappings comes before UpdateSoftwareSkinningState
                /\ geometrySkinMatrices_' = built.matrices
                /\ geometrySkinMatrixPtrs_' = built.ptrs
                /\ softwareSkinning_' = ~useHardwareSkinning
                /\ StoreMorphState(IF ~useHardwareSkinning THEN CloneGeometries(copied, 1)
                                   ELSE copied)
                /\ boneBoundingBox_' = GetBoundingBox(asset)
                /\ boneBoundingBoxDirty_' = TRUE
                /\ worldBoundingBoxDirty_' = (worldBoundingBoxDirty_ \/ r.marked)
                /\ last' = [op |-> op, finalized |-> ~r.compatible,
                            refused |-> FALSE, model |-> asset.name]
                /\ UNCHANGED <<animationDirty_, forceAnimationUpdate_>>
                /\ UNCHANGED <<otherSkeletons, nodeWorld>>
    /\ UNCHANGED <<nodeVars, lodVars, viewVars, contextVars, animationStateSource_,
                   worldBoundingBox_>>

\* AnimatedModel::SetModel(model, createBones = true) on the first component.
SetModel(asset, useHardwareSkinning) ==
    SetModelFrom("SetModel", model_, asset, useHardwareSkinning, TRUE)

\* AnimatedModel::SetModelAttr: SetModel(model, false); the bones are assigned
\* by ApplyAttributes.
SetModelAttr(asset, useHardwareSkinning) ==
    SetModelFrom("SetModel", model_, asset, useHardwareSkinning, FALSE)

\* AnimatedModel::HandleModelReloadFinished: the resource of model_ has been
\* loaded again and holds what reloaded holds; model_ is reset and the model
\* set again.
HandleModelReloadFinished(reloaded, useHardwareSkinning) ==
    /\ model_ # NoModel
    /\ reloaded.name = model_.name
    /\ SetModelFrom("HandleModelReloadFinished", NoModel, reloaded, useHardwareSkinning, TRUE)

\* AnimatedModel::SetSkeleton(skeleton, createBones = true) on another
\* component m of the node, not a master: its skeleton is defined and the
\* master told to merge its bone bounding boxes again.
SetSiblingSkeleton(m, bones) ==
    /\ m # 1
    /\ IsAttached(m)
    /\ ~isMaster_[m]
    /\ otherSkeletons' = [otherSkeletons EXCEPT ![m] = bones]
    /\ IF GetComponent(components) = 1
       THEN skeleton_' = FinalizeBoneBoundingBoxes(
                             skeleton_, model_,
                             OtherSkeletons(components, otherSkeletons', 1))
       ELSE UNCHANGED skeleton_
    /\ last' = [op |-> "SetSkeleton", finalized |-> GetComponent(components) = 1]
    /\ UNCHANGED <<model_, bonesOrder, boneNodeTransform, nodeWorld, skinMatrices_,
                   skeletonData_, geometryBoneMappings_, geometrySkinMatrices_,
                   geometrySkinMatrixPtrs_, skinningDirty_, softwareSkinning_>>
    /\ UNCHANGED animVars
    /\ UNCHANGED notSkinVars

\* AnimatedModel::SetModel(nullptr) on the first component
SetModelNull ==
    /\ IF SetModelRefused(NoModel, model_, IsAttached(1))
       THEN /\ last' = [op |-> "SetModel", finalized |-> FALSE, refused |-> TRUE,
                        model |-> NoModel.name]
            /\ UNCHANGED <<model_, geometryBoneMappings_, skeletonData_, skeleton_, bonesOrder,
                           boneNodeTransform, morphs_, morphsDirty_, modelAnimator_,
                           assignBonesPending_>>
       ELSE LET r == SetSkeletonTo(skeleton_, boneNodeTransform, NoModel, <<>>, <<>>, FALSE)
            IN  /\ model_' = NoModel
                /\ geometryBoneMappings_' = <<>>
                /\ skeletonData_' = <<>>
                /\ skeleton_' = r.skeleton
                /\ bonesOrder' = <<>>
                /\ boneNodeTransform' = r.transforms
                /\ assignBonesPending_' = r.pending
                /\ StoreMorphState([MorphState EXCEPT !.animator[1] = FALSE,
                                                      !.morphs[1] = <<>>])
                /\ last' = [op |-> "SetModel", finalized |-> FALSE, refused |-> FALSE,
                            model |-> NoModel.name]
    /\ UNCHANGED <<otherSkeletons, nodeWorld, skinMatrices_, geometrySkinMatrices_, geometrySkinMatrixPtrs_,
                   skinningDirty_, softwareSkinning_, nodeVars, lodVars>>
    /\ UNCHANGED <<animVars, viewVars, contextVars, animationStateSource_, boundsVars>>

\* Variant of OnMarkedDirty that does not look at the number of bones.
OnMarkedDirty_Always ==
    /\ skinningDirty_' = TRUE
    /\ boneBoundingBoxDirty_' = TRUE
    /\ worldBoundingBoxDirty_' = TRUE

\* AnimatedModel::OnMarkedDirty
OnMarkedDirty ==
    /\ skinningDirty_' = (skinningDirty_ \/ Len(skeleton_) > 0)
    /\ boneBoundingBoxDirty_' = (boneBoundingBoxDirty_ \/ Len(skeleton_) > 0)
    /\ worldBoundingBoxDirty_' = TRUE

\* The node moves: its world transform changes and its listeners are told.
NodeMoved(world) ==
    /\ nodeWorld' = world
    /\ OnMarkedDirty
    /\ last' = [op |-> "NodeMoved"]
    /\ UNCHANGED otherSkeletons
    /\ UNCHANGED <<model_, skeleton_, bonesOrder, boneNodeTransform, skinMatrices_,
                   skeletonData_, geometryBoneMappings_, geometrySkinMatrices_,
                   geometrySkinMatrixPtrs_, softwareSkinning_>>
    /\ UNCHANGED <<animationDirty_, forceAnimationUpdate_>>
    /\ UNCHANGED <<lodVars, morphVars, viewVars, hostVars, boneBoundingBox_, worldBoundingBox_>>

\* The node of bone i (from 1) is given a transform: the component listens to it.
BoneNodeMoved(i, transform) ==
    /\ i \in 1..Len(skeleton_)
    /\ skeleton_[i].node
    /\ boneNodeTransform' = [boneNodeTransform EXCEPT ![i] = transform]
    /\ OnMarkedDirty
    /\ last' = [op |-> "BoneNodeMoved"]
    /\ UNCHANGED otherSkeletons
    /\ UNCHANGED <<model_, skeleton_, bonesOrder, nodeWorld, skinMatrices_, skeletonData_,
                   geometryBoneMappings_, geometrySkinMatrices_, geometrySkinMatrixPtrs_,
                   softwareSkinning_>>
    /\ UNCHANGED <<animationDirty_, forceAnimationUpdate_>>
    /\ UNCHANGED <<lodVars, morphVars, viewVars, hostVars, boneBoundingBox_, worldBoundingBox_>>

RECURSIVE IsBelow(_, _, _)
\* Bone i (from 1) is bone a or one of its descendants.
IsBelow(bones, a, i) ==
    \/ i = a
    \/ /\ bones[i].parentIndex_ # i - 1
       /\ IsBelow(bones, a, bones[i].parentIndex_ + 1)

\* The node of bone i (from 1) is destroyed, and with it the nodes below it: the
\* bones' weak references to them expire.
BoneNodeRemoved(i) ==
    /\ i \in 1..Len(skeleton_)
    /\ skeleton_[i].node
    /\ skeleton_' = [k \in 1..Len(skeleton_) |->
                        IF IsBelow(skeleton_, i, k)
                        THEN [skeleton_[k] EXCEPT !.node = FALSE]
                        ELSE skeleton_[k]]
    /\ last' = [op |-> "BoneNodeRemoved"]
    /\ UNCHANGED otherSkeletons
    /\ UNCHANGED <<otherSkeletons, model_, bonesOrder, boneNodeTransform, nodeWorld,
                   skinMatrices_,
                   skeletonData_, geometryBoneMappings_, geometrySkinMatrices_,
                   geometrySkinMatrixPtrs_, skinningDirty_, softwareSkinning_>>
    /\ UNCHANGED animVars
    /\ UNCHANGED notSkinVars

\* Variant of AnimationApplied that leaves the master test out.
AnimationApplied_AnyInstance(master, track) ==
    LET data == CalculateFinalBoneTransforms(
                    CalculateAnimations(
                        InitializeLocalBoneTransforms(skeletonData_, skeleton_,
                                                      boneNodeTransform, FALSE),
                        track),
                    skeleton_, bonesOrder)
    IN  [skeletonData |-> data,
         boneNodeTransform |-> ApplyBoneTransformsToNodes(data, skeleton_, boneNodeTransform),
         skinningDirty |-> (skinningDirty_ \/ Len(skeleton_) > 0),
         animationDirty |-> FALSE,
         boneBoundingBoxDirty |-> (Len(skeleton_) > 0)]

\* Variant of AnimationApplied that does not write the bone nodes.
AnimationApplied_NoNodeWrite(master, track) ==
    IF master
    THEN LET data == CalculateFinalBoneTransforms(
                         CalculateAnimations(
                             InitializeLocalBoneTransforms(skeletonData_, skeleton_,
                                                           boneNodeTransform, FALSE),
                             track),
                         skeleton_, bonesOrder)
         IN  [skeletonData |-> data,
              boneNodeTransform |-> boneNodeTransform,
              skinningDirty |-> (skinningDirty_ \/ Len(skeleton_) > 0),
              animationDirty |-> FALSE,
              boneBoundingBoxDirty |-> (Len(skeleton_) > 0)]
    ELSE [skeletonData |-> skeletonData_,
          boneNodeTransform |-> boneNodeTransform,
          skinningDirty |-> skinningDirty_,
          animationDirty |-> animationDirty_,
          boneBoundingBoxDirty |-> boneBoundingBoxDirty_]

\* AnimatedModel::ApplyAnimation of the first component, whose isMaster_ is
\* master: the local transforms are read from the bone nodes, overwritten by
\* the animation tracks (CalculateAnimations clears animationDirty_), composed
\* (CalculateLocalBoundingBox clears boneBoundingBoxDirty_) and written to the
\* bone nodes; then the node is marked dirty, which OnMarkedDirty answers.
AnimationApplied(master, track) ==
    IF master
    THEN LET data == CalculateFinalBoneTransforms(
                         CalculateAnimations(
                             InitializeLocalBoneTransforms(skeletonData_, skeleton_,
                                                           boneNodeTransform, FALSE),
                             track),
                         skeleton_, bonesOrder)
         IN  [skeletonData |-> data,
              boneNodeTransform |->
                  ApplyBoneTransformsToNodes(data, skeleton_, boneNodeTransform),
              skinningDirty |-> (skinningDirty_ \/ Len(skeleton_) > 0),
              animationDirty |-> FALSE,
              boneBoundingBoxDirty |-> (Len(skeleton_) > 0)]
    ELSE [skeletonData |-> skeletonData_,
          boneNodeTransform |-> boneNodeTransform,
          skinningDirty |-> skinningDirty_,
          animationDirty |-> animationDirty_,
          boneBoundingBoxDirty |-> boneBoundingBoxDirty_]

\* AnimatedModel::ApplyAnimation called on the first component, in the scene.
ApplyAnimation(track) ==
    /\ IsAttached(1)
    /\ LET r == AnimationApplied(isMaster_[1], track)
       IN  /\ skeletonData_' = r.skeletonData
           /\ boneNodeTransform' = r.boneNodeTransform
           /\ skinningDirty_' = r.skinningDirty
           /\ animationDirty_' = r.animationDirty
           /\ boneBoundingBoxDirty_' = r.boneBoundingBoxDirty
           /\ boneBoundingBox_' = IF isMaster_[1]
                                  THEN CalculateLocalBoundingBox(r.skeletonData, skeleton_)
                                  ELSE boneBoundingBox_
           /\ worldBoundingBoxDirty_' = (worldBoundingBoxDirty_ \/ isMaster_[1])
    /\ last' = [op |-> "ApplyAnimation"]
    /\ UNCHANGED otherSkeletons
    /\ UNCHANGED <<model_, skeleton_, bonesOrder, nodeWorld, skinMatrices_,
                   geometryBoneMappings_, geometrySkinMatrices_, geometrySkinMatrixPtrs_,
                   softwareSkinning_>>
    /\ UNCHANGED forceAnimationUpdate_
    /\ UNCHANGED <<lodVars, morphVars, viewVars, hostVars, worldBoundingBox_>>

UPDATE_NONE == "none"
UPDATE_MAIN_THREAD == "main thread"
UPDATE_WORKER_THREAD == "worker thread"

\* Variant of GetUpdateGeometryType that leaves software skinning to the
\* worker threads.
GetUpdateGeometryType_SoftwareOnWorker(morphsDirty, forced, skinningDirty, software) ==
    IF morphsDirty \/ forced
    THEN UPDATE_MAIN_THREAD
    ELSE IF skinningDirty THEN UPDATE_WORKER_THREAD ELSE UPDATE_NONE

\* AnimatedModel::GetUpdateGeometryType
GetUpdateGeometryType(morphsDirty, forced, skinningDirty, software) ==
    IF morphsDirty \/ forced \/ (skinningDirty /\ software)
    THEN UPDATE_MAIN_THREAD
    ELSE IF skinningDirty THEN UPDATE_WORKER_THREAD ELSE UPDATE_NONE

\* AnimatedModel::UpdateGeometry of the first component. A forced animation
\* update owed is made first: the gate is consulted (its answer is only
\* asserted) and the animation applied; then the skin matrices are rebuilt if
\* skinningDirty_, then the morphs if morphsDirty_.
UpdateGeometry(timeStep, track) ==
    /\ IsAttached(1)
    /\ LET gate == UpdateAndCheckAnimationTimers(animationLodTimer_, animationLodBias_,
                                                 animationLodDistance_, timeStep, baseScale)
           applied == AnimationApplied(isMaster_[1], track)
           transforms == IF forceAnimationUpdate_ THEN applied.boneNodeTransform
                         ELSE boneNodeTransform
           dirty == IF forceAnimationUpdate_ THEN applied.skinningDirty ELSE skinningDirty_
           r == UpdateSkinning(skinMatrices_, geometrySkinMatrices_,
                               geometrySkinMatrixPtrs_, skeleton_, transforms, nodeWorld)
           \* UpdateSkinning sets morphsDirty_ under software skinning, UpdateMorphs
           \* clears it
           skinned == IF dirty /\ softwareSkinning_
                      THEN MarkMorphsDirty(MorphState, 1)
                      ELSE MorphState
       IN  /\ IF forceAnimationUpdate_
              THEN /\ animationLodTimer_' = gate.timer
                   /\ skeletonData_' = applied.skeletonData
                   /\ animationDirty_' = applied.animationDirty
                   /\ boneBoundingBoxDirty_' = applied.boneBoundingBoxDirty
              ELSE UNCHANGED <<animationLodTimer_, skeletonData_, animationDirty_,
                               boneBoundingBoxDirty_>>
           /\ IF forceAnimationUpdate_ /\ isMaster_[1]
              THEN /\ boneBoundingBox_' =
                         CalculateLocalBoundingBox(applied.skeletonData, skeleton_)
                   /\ worldBoundingBoxDirty_' = TRUE
              ELSE UNCHANGED <<boneBoundingBox_, worldBoundingBoxDirty_>>
           /\ boneNodeTransform' = transforms
           /\ forceAnimationUpdate_' = FALSE
           /\ IF dirty
              THEN /\ skinMatrices_' = r.skin
                   /\ geometrySkinMatrices_' = r.matrices
              ELSE UNCHANGED <<skinMatrices_, geometrySkinMatrices_>>
           /\ skinningDirty_' = FALSE
           /\ StoreMorphState(IF skinned.dirty[1] THEN UpdateMorphs(skinned, 1) ELSE skinned)
           /\ last' = [op |-> "UpdateGeometry", skinning |-> dirty,
                       forced |-> forceAnimationUpdate_,
                       needUpdate |-> gate.due,
                       type |-> GetUpdateGeometryType(morphsDirty_[1], forceAnimationUpdate_,
                                                      skinningDirty_, softwareSkinning_)]
    /\ UNCHANGED otherSkeletons
    /\ UNCHANGED <<model_, skeleton_, bonesOrder, nodeWorld,
                   geometryBoneMappings_, geometrySkinMatrixPtrs_, softwareSkinning_>>
    /\ UNCHANGED <<animationLodBias_, animationLodDistance_, animationLodFrameNumber_,
                   baseScale, viewDistances, frameNumber, lodRun>>
    /\ UNCHANGED <<nodeVars, viewVars, hostVars, worldBoundingBox_>>

\* The renderer's update of the geometry of the first component: UpdateGeometry
\* is scheduled when GetUpdateGeometryType is not UPDATE_NONE.
RenderUpdateGeometry(timeStep, track) ==
    /\ GetUpdateGeometryType(morphsDirty_[1], forceAnimationUpdate_, skinningDirty_,
                             softwareSkinning_) # UPDATE_NONE
    /\ UpdateGeometry(timeStep, track)

\* AnimatedModel::UpdateBoneBoundingBox of the first component: the local
\* transforms are read from the bone nodes and composed.
UpdateBoneBoundingBox ==
    /\ skeletonData_' =
          CalculateFinalBoneTransforms(
              InitializeLocalBoneTransforms(skeletonData_, skeleton_, boneNodeTransform, FALSE),
              skeleton_, bonesOrder)
    /\ boneBoundingBox_' = CalculateLocalBoundingBox(skeletonData_', skeleton_)
    /\ boneBoundingBoxDirty_' = FALSE
    /\ worldBoundingBoxDirty_' = TRUE
    /\ last' = [op |-> "UpdateBoneBoundingBox"]
    /\ UNCHANGED <<animationDirty_, forceAnimationUpdate_>>
    /\ UNCHANGED otherSkeletons
    /\ UNCHANGED <<model_, skeleton_, bonesOrder, boneNodeTransform, nodeWorld, skinMatrices_,
                   geometryBoneMappings_, geometrySkinMatrices_, geometrySkinMatrixPtrs_,
                   skinningDirty_, softwareSkinning_>>
    /\ UNCHANGED <<lodVars, morphVars, viewVars, hostVars, worldBoundingBox_>>

\* Drawable::GetWorldBoundingBox on the first component while it is the
\* master: a dirty world bounding box is computed by OnWorldBoundingBoxUpdate
\* from the bone bounding box and the node's world transform.
GetWorldBoundingBox ==
    /\ IsAttached(1)
    /\ isMaster_[1]
    /\ worldBoundingBox_' = IF worldBoundingBoxDirty_
                            THEN Transformed(boneBoundingBox_, nodeWorld)
                            ELSE worldBoundingBox_
    /\ worldBoundingBoxDirty_' = FALSE
    /\ last' = [op |-> "GetWorldBoundingBox", updated |-> worldBoundingBoxDirty_]
    /\ UNCHANGED <<lodVars, morphVars, skinVars, animVars, viewVars, hostVars,
                   boneBoundingBox_>>

\* AnimatedModel::InitializeLocalBoneTransforms called on its own.
CallInitializeLocalBoneTransforms(reset) ==
    /\ skeletonData_' =
          InitializeLocalBoneTransforms(skeletonData_, skeleton_, boneNodeTransform, reset)
    /\ last' = [op |-> "InitializeLocalBoneTransforms", reset |-> reset,
                changed |-> skeletonData_' # skeletonData_]
    /\ UNCHANGED animVars
    /\ UNCHANGED otherSkeletons
    /\ UNCHANGED <<model_, skeleton_, bonesOrder, boneNodeTransform, nodeWorld, skinMatrices_,
                   geometryBoneMappings_, geometrySkinMatrices_, geometrySkinMatrixPtrs_,
                   skinningDirty_, softwareSkinning_>>
    /\ UNCHANGED notSkinVars

\* AnimatedModel::CalculateAnimations called on its own, on a master.
CallCalculateAnimations(track) ==
    /\ isMaster_[1]
    /\ skeletonData_' = CalculateAnimations(skeletonData_, track)
    /\ animationDirty_' = FALSE
    /\ boneBoundingBoxDirty_' = TRUE
    /\ last' = [op |-> "CalculateAnimations", track |-> track]
    /\ UNCHANGED forceAnimationUpdate_
    /\ UNCHANGED otherSkeletons
    /\ UNCHANGED <<model_, skeleton_, bonesOrder, boneNodeTransform, nodeWorld, skinMatrices_,
                   geometryBoneMappings_, geometrySkinMatrices_, geometrySkinMatrixPtrs_,
                   skinningDirty_, softwareSkinning_>>
    /\ UNCHANGED notSkinVars

(***************************************************************************)
(* The threaded update of the first component                              *)
(***************************************************************************)
Abs(x) == IF x < 0 THEN 0 - x ELSE x

\* Variant of PrepareForThreadedUpdate that decides the animation LOD
\* distance before the draw distance test.
PrepareForThreadedUpdate_DistanceFirst(camera, beyondDrawDistance, lodDistance) ==
    LET outOfView == camera /\ Abs(frameNumber - viewFrameNumber_) > 1
    IN  IF outOfView /\ viewFrameNumber_ # 0 /\ ~updateInvisible_
        THEN [result |-> FALSE,
              timer |-> IF animationDirty_ THEN TimerSentinel ELSE animationLodTimer_,
              force |-> (animationDirty_ \/ forceAnimationUpdate_),
              view |-> viewFrameNumber_,
              distance |-> animationLodDistance_,
              measured |-> FALSE]
        ELSE IF outOfView
        THEN [result |-> ~beyondDrawDistance,
              timer |-> animationLodTimer_,
              force |-> forceAnimationUpdate_,
              view |-> Max(1, viewFrameNumber_),
              distance |-> lodDistance,
              measured |-> TRUE]
        ELSE [result |-> TRUE, timer |-> animationLodTimer_,
              force |-> forceAnimationUpdate_, view |-> viewFrameNumber_,
              distance |-> animationLodDistance_,
              measured |-> FALSE]

\* Variant of PrepareForThreadedUpdate that makes no exception for the first
\* update.
PrepareForThreadedUpdate_NoFirstUpdate(camera, beyondDrawDistance, lodDistance) ==
    LET outOfView == camera /\ Abs(frameNumber - viewFrameNumber_) > 1
    IN  IF outOfView /\ ~updateInvisible_
        THEN [result |-> FALSE,
              timer |-> IF animationDirty_ THEN TimerSentinel ELSE animationLodTimer_,
              force |-> (animationDirty_ \/ forceAnimationUpdate_),
              view |-> viewFrameNumber_,
              distance |-> animationLodDistance_,
              measured |-> FALSE]
        ELSE IF outOfView
        THEN [result |-> ~beyondDrawDistance,
              timer |-> animationLodTimer_,
              force |-> forceAnimationUpdate_,
              view |-> Max(1, viewFrameNumber_),
              distance |-> IF beyondDrawDistance THEN animationLodDistance_
                           ELSE lodDistance,
              measured |-> ~beyondDrawDistance]
        ELSE [result |-> TRUE, timer |-> animationLodTimer_,
              force |-> forceAnimationUpdate_, view |-> viewFrameNumber_,
              distance |-> animationLodDistance_,
              measured |-> FALSE]

\* Variant of PrepareForThreadedUpdate that records no forced update.
PrepareForThreadedUpdate_NeverForces(camera, beyondDrawDistance, lodDistance) ==
    LET outOfView == camera /\ Abs(frameNumber - viewFrameNumber_) > 1
    IN  IF outOfView /\ viewFrameNumber_ # 0 /\ ~updateInvisible_
        THEN [result |-> FALSE,
              timer |-> animationLodTimer_,
              force |-> forceAnimationUpdate_,
              view |-> viewFrameNumber_,
              distance |-> animationLodDistance_,
              measured |-> FALSE]
        ELSE IF outOfView
        THEN [result |-> ~beyondDrawDistance,
              timer |-> animationLodTimer_,
              force |-> forceAnimationUpdate_,
              view |-> Max(1, viewFrameNumber_),
              distance |-> IF beyondDrawDistance THEN animationLodDistance_
                           ELSE lodDistance,
              measured |-> ~beyondDrawDistance]
        ELSE [result |-> TRUE, timer |-> animationLodTimer_,
              force |-> forceAnimationUpdate_, view |-> viewFrameNumber_,
              distance |-> animationLodDistance_,
              measured |-> FALSE]

\* AnimatedModel::PrepareForThreadedUpdate(camera, frameNumber) of the first
\* component: what it returns and the values it leaves in animationLodTimer_,
\* forceAnimationUpdate_, viewFrameNumber_ and animationLodDistance_. camera
\* tells whether there is one, beyondDrawDistance whether drawDistance_ is set
\* and the camera farther than it, lodDistance what Camera::GetLodDistance
\* returns.
PrepareForThreadedUpdate(camera, beyondDrawDistance, lodDistance) ==
    LET outOfView == camera /\ Abs(frameNumber - viewFrameNumber_) > 1
    IN  IF outOfView /\ viewFrameNumber_ # 0 /\ ~updateInvisible_
        THEN [result |-> FALSE,
              timer |-> IF animationDirty_ THEN TimerSentinel ELSE animationLodTimer_,
              force |-> (animationDirty_ \/ forceAnimationUpdate_),
              view |-> viewFrameNumber_,
              distance |-> animationLodDistance_,
              measured |-> FALSE]
        ELSE IF outOfView
        THEN [result |-> ~beyondDrawDistance,
              timer |-> animationLodTimer_,
              force |-> forceAnimationUpdate_,
              view |-> Max(1, viewFrameNumber_),
              distance |-> IF beyondDrawDistance THEN animationLodDistance_
                           ELSE lodDistance,
              measured |-> ~beyondDrawDistance]
        ELSE [result |-> TRUE, timer |-> animationLodTimer_,
              force |-> forceAnimationUpdate_, view |-> viewFrameNumber_,
              distance |-> animationLodDistance_,
              measured |-> FALSE]

\* The entries Update hands to Octree::QueueNodeTransformUpdate: one for each
\* bone that has a node.
NodeTransformUpdates(data, bones) ==
    {[bone |-> i, transform |-> data[i].localToParent_] :
        i \in {k \in 1..Len(bones) : bones[k].node}}

\* Variant of UpdateBones that hands the transforms to the octree whenever the
\* local transforms were initialized.
UpdateBones_QueuesAlways(master, distance, timeStep, track) ==
    LET gate == UpdateAndCheckAnimationTimers(animationLodTimer_, animationLodBias_,
                                              distance, timeStep, baseScale)
        initialized == InitializeLocalBoneTransforms(skeletonData_, skeleton_,
                                                     boneNodeTransform, FALSE)
        called == master /\ animationDirty_
        evaluated == called /\ gate.due
        animated == IF evaluated THEN CalculateAnimations(initialized, track)
                    ELSE initialized
        bounds == IF master THEN evaluated \/ boneBoundingBoxDirty_
                  ELSE boneBoundingBoxDirty_
        data == IF bounds THEN CalculateFinalBoneTransforms(animated, skeleton_, bonesOrder)
                ELSE animated
    IN  IF (master /\ animationDirty_) \/ boneBoundingBoxDirty_
        THEN [data |-> data,
              timer |-> IF called THEN gate.timer ELSE animationLodTimer_,
              animationDirty |-> (animationDirty_ /\ ~evaluated),
              boneBoundingBoxDirty |-> FALSE,
              called |-> called,
              due |-> evaluated,
              queued |-> NodeTransformUpdates(data, skeleton_)]
        ELSE [data |-> skeletonData_, timer |-> animationLodTimer_,
              animationDirty |-> animationDirty_,
              boneBoundingBoxDirty |-> boneBoundingBoxDirty_,
              called |-> FALSE, due |-> FALSE, queued |-> {}]

\* Variant of UpdateBones that clears animationDirty_ whenever the gate was asked.
UpdateBones_ClearsWhenCalled(master, distance, timeStep, track) ==
    LET gate == UpdateAndCheckAnimationTimers(animationLodTimer_, animationLodBias_,
                                              distance, timeStep, baseScale)
        initialized == InitializeLocalBoneTransforms(skeletonData_, skeleton_,
                                                     boneNodeTransform, FALSE)
        called == master /\ animationDirty_
        evaluated == called /\ gate.due
        animated == IF evaluated THEN CalculateAnimations(initialized, track)
                    ELSE initialized
        bounds == IF master THEN evaluated \/ boneBoundingBoxDirty_
                  ELSE boneBoundingBoxDirty_
        data == IF bounds THEN CalculateFinalBoneTransforms(animated, skeleton_, bonesOrder)
                ELSE animated
    IN  IF (master /\ animationDirty_) \/ boneBoundingBoxDirty_
        THEN [data |-> data,
              timer |-> IF called THEN gate.timer ELSE animationLodTimer_,
              animationDirty |-> (animationDirty_ /\ ~called),
              boneBoundingBoxDirty |-> (boneBoundingBoxDirty_ /\ ~bounds),
              called |-> called,
              due |-> evaluated,
              queued |-> IF evaluated THEN NodeTransformUpdates(data, skeleton_) ELSE {}]
        ELSE [data |-> skeletonData_, timer |-> animationLodTimer_,
              animationDirty |-> animationDirty_,
              boneBoundingBoxDirty |-> boneBoundingBoxDirty_,
              called |-> FALSE, due |-> FALSE, queued |-> {}]

\* AnimatedModel::Update after PrepareForThreadedUpdate returned true, on the
\* first component, whose isMaster_ is master; distance is animationLodDistance_
\* as Prepare left it. The result holds the new skeletonData_,
\* animationLodTimer_, animationDirty_ and boneBoundingBoxDirty_, whether
\* UpdateAndCheckAnimationTimers was called and what it returned, and the
\* entries queued in the octree.
UpdateBones(master, distance, timeStep, track) ==
    LET gate == UpdateAndCheckAnimationTimers(animationLodTimer_, animationLodBias_,
                                              distance, timeStep, baseScale)
        initialized == InitializeLocalBoneTransforms(skeletonData_, skeleton_,
                                                     boneNodeTransform, FALSE)
        called == master /\ animationDirty_
        evaluated == called /\ gate.due
        \* CalculateAnimations clears animationDirty_ and sets boneBoundingBoxDirty_
        animated == IF evaluated THEN CalculateAnimations(initialized, track)
                    ELSE initialized
        bounds == IF master THEN evaluated \/ boneBoundingBoxDirty_
                  ELSE boneBoundingBoxDirty_
        \* CalculateLocalBoundingBox composes and clears boneBoundingBoxDirty_
        data == IF bounds THEN CalculateFinalBoneTransforms(animated, skeleton_, bonesOrder)
                ELSE animated
    IN  IF (master /\ animationDirty_) \/ boneBoundingBoxDirty_
        THEN [data |-> data,
              timer |-> IF called THEN gate.timer ELSE animationLodTimer_,
              animationDirty |-> (animationDirty_ /\ ~evaluated),
              boneBoundingBoxDirty |-> (boneBoundingBoxDirty_ /\ ~bounds),
              called |-> called,
              due |-> evaluated,
              queued |-> IF evaluated THEN NodeTransformUpdates(data, skeleton_) ELSE {}]
        ELSE [data |-> skeletonData_, timer |-> animationLodTimer_,
              animationDirty |-> animationDirty_,
              boneBoundingBoxDirty |-> boneBoundingBoxDirty_,
              called |-> FALSE, due |-> FALSE, queued |-> {}]

\* Octree::QueueNodeTransformUpdate for each entry: the last transform queued
\* for a bone node is the one the node will get.
Enqueue(queue, entries) ==
    {q \in queue : \A n \in entries : n.bone # q.bone} \cup entries

\* The cameras' distances Update meets: LOD off, and a distance to throttle by.
UpdateLodDistances == {0, MaxTimeStep}

\* AnimatedModel::Update(frame) of the first component; the octree updates the
\* components that are in the scene.
Update(camera, beyondDrawDistance, lodDistance, timeStep, track) ==
    /\ IsAttached(1)
    /\ LET p == PrepareForThreadedUpdate(camera, beyondDrawDistance, lodDistance)
           u == UpdateBones(isMaster_[1], p.distance, timeStep, track)
           \* the master's world bounding box was asked for (a sibling asks its master)
           measured == p.measured /\ isMaster_[1]
       IN  /\ viewFrameNumber_' = p.view
           /\ animationLodDistance_' = p.distance
           /\ forceAnimationUpdate_' = p.force
           /\ IF p.result
              THEN /\ animationLodTimer_' = u.timer
                   /\ skeletonData_' = u.data
                   /\ animationDirty_' = u.animationDirty
                   /\ boneBoundingBoxDirty_' = u.boneBoundingBoxDirty
                   /\ queuedTransforms' = Enqueue(queuedTransforms, u.queued)
              ELSE /\ animationLodTimer_' = p.timer
                   /\ UNCHANGED <<skeletonData_, animationDirty_, boneBoundingBoxDirty_,
                                  queuedTransforms>>
           \* CalculateLocalBoundingBox is called when boneBoundingBoxDirty_ is
           \* set, which CalculateAnimations does
           /\ IF p.result /\ (u.due \/ boneBoundingBoxDirty_)
              THEN /\ boneBoundingBox_' = CalculateLocalBoundingBox(u.data, skeleton_)
                   /\ worldBoundingBoxDirty_' = TRUE
              ELSE /\ worldBoundingBoxDirty_' = (worldBoundingBoxDirty_ /\ ~measured)
                   /\ UNCHANGED boneBoundingBox_
           \* Prepare reads GetWorldBoundingBox() for the scale of the LOD distance
           /\ worldBoundingBox_' = IF measured /\ worldBoundingBoxDirty_
                                   THEN Transformed(boneBoundingBox_, nodeWorld)
                                   ELSE worldBoundingBox_
           /\ last' = [op |-> "Update", camera |-> camera, prepared |-> p.result,
                       beyond |-> beyondDrawDistance,
                       timeStep |-> timeStep,
                       timer |-> animationLodTimer_,
                       called |-> p.result /\ u.called,
                       due |-> p.result /\ u.due,
                       bounds |-> p.result /\ (u.due \/ boneBoundingBoxDirty_)]
    /\ markedForUpdate' = FALSE
    /\ UNCHANGED otherSkeletons
    /\ UNCHANGED <<model_, skeleton_, bonesOrder, boneNodeTransform, nodeWorld, skinMatrices_,
                   geometryBoneMappings_, geometrySkinMatrices_, geometrySkinMatrixPtrs_,
                   skinningDirty_, softwareSkinning_>>
    /\ UNCHANGED <<animationLodBias_, animationLodFrameNumber_, baseScale, viewDistances, frameNumber,
                   lodRun>>
    /\ UNCHANGED <<morphVars, updateInvisible_, everInView, hostVars>>

\* The octree applies the queued transforms to the bone nodes; the nodes tell
\* their listeners.
UpdateNodeTransforms ==
    /\ queuedTransforms # {}
    /\ boneNodeTransform' =
          [i \in 1..Len(boneNodeTransform) |->
              IF \E q \in queuedTransforms : q.bone = i
              THEN (CHOOSE q \in queuedTransforms : q.bone = i).transform
              ELSE boneNodeTransform[i]]
    /\ queuedTransforms' = {}
    /\ OnMarkedDirty
    /\ last' = [op |-> "UpdateNodeTransforms"]
    /\ UNCHANGED otherSkeletons
    /\ UNCHANGED <<model_, skeleton_, bonesOrder, nodeWorld, skinMatrices_, skeletonData_,
                   geometryBoneMappings_, geometrySkinMatrices_, geometrySkinMatrixPtrs_,
                   softwareSkinning_>>
    /\ UNCHANGED <<animationDirty_, forceAnimationUpdate_>>
    /\ UNCHANGED <<lodVars, morphVars, viewFrameNumber_, updateInvisible_, everInView,
                   markedForUpdate,
                   hostVars, boneBoundingBox_, worldBoundingBox_>>

\* AnimatedModel::MarkAnimationDirty on the first component
MarkAnimationDirty ==
    /\ IF isMaster_[1]
       THEN /\ animationDirty_' = TRUE
            /\ markedForUpdate' = TRUE
       ELSE UNCHANGED <<animationDirty_, markedForUpdate>>
    /\ last' = [op |-> "MarkAnimationDirty"]
    /\ UNCHANGED <<boneBoundingBoxDirty_, forceAnimationUpdate_>>
    /\ UNCHANGED <<viewFrameNumber_, updateInvisible_, everInView, queuedTransforms>>
    /\ UNCHANGED <<lodVars, morphVars, skinVars, hostVars, boundsVars>>

\* AnimatedModel::SetUpdateInvisible
SetUpdateInvisible(enable) ==
    /\ updateInvisible_' = enable
    /\ last' = [op |-> "SetUpdateInvisible"]
    /\ UNCHANGED <<viewFrameNumber_, everInView, queuedTransforms, markedForUpdate>>
    /\ UNCHANGED <<lodVars, morphVars, skinVars, animVars, hostVars, boundsVars>>

\* Drawable::MarkInView(frame): the component is in a view this frame.
MarkInView ==
    /\ viewFrameNumber_' = frameNumber
    /\ everInView' = TRUE
    /\ last' = [op |-> "MarkInView"]
    /\ UNCHANGED <<updateInvisible_, queuedTransforms, markedForUpdate>>
    /\ UNCHANGED <<lodVars, morphVars, skinVars, animVars, hostVars, boundsVars>>

\* Skeleton::Reset: the node of every bone that has one is given the bone's
\* bind pose, silently (its listeners are not told).
Reset(bones, transforms) ==
    [i \in 1..Len(transforms) |->
        IF i <= Len(bones) /\ bones[i].node THEN bones[i].initial ELSE transforms[i]]

\* AnimatedModel::ResetBones on the first component
ResetBones ==
    /\ boneNodeTransform' = Reset(skeleton_, boneNodeTransform)
    /\ last' = [op |-> "ResetBones"]
    /\ UNCHANGED otherSkeletons
    /\ UNCHANGED <<model_, skeleton_, bonesOrder, nodeWorld, skinMatrices_, skeletonData_,
                   geometryBoneMappings_, geometrySkinMatrices_, geometrySkinMatrixPtrs_,
                   skinningDirty_, softwareSkinning_>>
    /\ UNCHANGED animVars
    /\ UNCHANGED notSkinVars

\* AnimatedModel::SetSkeleton(skeleton, createBones) on the first component,
\* with the skeleton of a model resource. A master keeps compatible bones or
\* defines the skeleton anew and creates its bone nodes; a sibling defines the
\* skeleton, tells the master to merge its bone bounding boxes again (it
\* holds no bones here) and looks the bone nodes of the master up by name.
\* Without a node and without createBones the call dereferences the null
\* node_ unless it returns on compatible bones: such calls are not made.
SetSkeleton(asset, createBones) ==
    /\ IsAttached(1) \/ createBones \/ (isMaster_[1] /\ Compatible(skeleton_, asset.bones))
    /\ LET r == SetSkeletonTo(skeleton_, boneNodeTransform, model_, asset.bones, asset.order,
                              createBones)
       IN  /\ skeleton_' = r.skeleton
           /\ bonesOrder' = r.order
           /\ boneNodeTransform' = r.transforms
           /\ skinningDirty_' = (skinningDirty_ \/ r.marked)
           /\ boneBoundingBoxDirty_' = (boneBoundingBoxDirty_ \/ r.marked)
           /\ worldBoundingBoxDirty_' = (worldBoundingBoxDirty_ \/ r.marked)
           /\ assignBonesPending_' = r.pending
           /\ last' = [op |-> "SetSkeleton",
                       finalized |-> ~r.refused /\ isMaster_[1] /\ ~r.compatible,
                       refused |-> r.refused, compatible |-> r.compatible,
                       createBones |-> createBones, notified |-> r.notified,
                       event |-> r.event, bones |-> asset.bones]
    /\ UNCHANGED otherSkeletons
    /\ UNCHANGED <<model_, nodeWorld, skinMatrices_, skeletonData_,
                   geometryBoneMappings_, geometrySkinMatrices_, geometrySkinMatrixPtrs_,
                   softwareSkinning_>>
    /\ UNCHANGED <<animationDirty_, forceAnimationUpdate_>>
    /\ UNCHANGED <<lodVars, morphVars, viewVars, contextVars, animationStateSource_,
                   boneBoundingBox_, worldBoundingBox_>>

\* Variant of ReassignSkeleton that does not ask for a model.
ReassignSkeleton_WithoutModel(allBonesFound, model) == ~allBonesFound

\* AssignBoneNodes' test for the corrective SetSkeleton: a bone was not found
\* and a model is set.
ReassignSkeleton(allBonesFound, model) == ~allBonesFound /\ model # NoModel

\* AnimatedModel::AssignBoneNodes on the first component; extra holds the
\* names of the nodes below node_ that no bone refers to. Nothing happens
\* without a node; otherwise the bone nodes are looked up by name up to the
\* first one missing; if one is missing and a model is set, SetSkeleton runs
\* with the model's skeleton; the animation source is notified at the end.
AssignBoneNodes(extra) ==
    /\ assignBonesPending_' = FALSE
    /\ LET found == [i \in 1..Len(skeleton_) |->
                        [skeleton_[i] EXCEPT !.node =
                            \/ skeleton_[i].name_ \in extra
                            \/ FindBoneNodes(skeleton_, skeleton_)[i].node]]
           allBonesFound == \A i \in 1..Len(found) : found[i].node
           firstMissing == Infimum({i \in 1..Len(found) : ~found[i].node})
           assigned == IF allBonesFound THEN found
                       ELSE [i \in 1..Len(found) |->
                                IF i < firstMissing THEN found[i] ELSE skeleton_[i]]
           corrective == ReassignSkeleton(allBonesFound, model_)
           r == SetSkeletonTo(assigned, boneNodeTransform, model_, model_.bones,
                              model_.order, TRUE)
       IN  IF ~IsAttached(1)
           THEN /\ last' = [op |-> "AssignBoneNodes", attached |-> FALSE,
                            corrective |-> FALSE, notified |-> FALSE, extra |-> extra]
                /\ UNCHANGED <<skeleton_, bonesOrder, boneNodeTransform, skinningDirty_,
                               boneBoundingBoxDirty_, worldBoundingBoxDirty_>>
           ELSE IF corrective
           THEN /\ skeleton_' = r.skeleton
                /\ bonesOrder' = r.order
                /\ boneNodeTransform' = r.transforms
                /\ skinningDirty_' = (skinningDirty_ \/ r.marked)
                /\ boneBoundingBoxDirty_' = (boneBoundingBoxDirty_ \/ r.marked)
                /\ worldBoundingBoxDirty_' = (worldBoundingBoxDirty_ \/ r.marked)
                /\ last' = [op |-> "AssignBoneNodes", attached |-> TRUE,
                            corrective |-> TRUE,
                            notified |-> r.notified \/ animationStateSource_,
                            extra |-> extra]
           ELSE /\ skeleton_' = assigned
                /\ last' = [op |-> "AssignBoneNodes", attached |-> TRUE,
                            corrective |-> FALSE, notified |-> animationStateSource_,
                            extra |-> extra]
                /\ UNCHANGED <<bonesOrder, boneNodeTransform, skinningDirty_,
                               boneBoundingBoxDirty_, worldBoundingBoxDirty_>>
    /\ UNCHANGED otherSkeletons
    /\ UNCHANGED <<model_, nodeWorld, skinMatrices_, skeletonData_,
                   geometryBoneMappings_, geometrySkinMatrices_, geometrySkinMatrixPtrs_,
                   softwareSkinning_>>
    /\ UNCHANGED <<animationDirty_, forceAnimationUpdate_>>
    /\ UNCHANGED <<lodVars, morphVars, viewVars, contextVars, animationStateSource_,
                   boneBoundingBox_, worldBoundingBox_>>

\* AnimatedModel::ApplyAttributes of the first component.
ApplyAttributes(extra) ==
    IF assignBonesPending_
    THEN AssignBoneNodes(extra)
    ELSE /\ last' = [op |-> "ApplyAttributes"]
         /\ UNCHANGED <<lodVars, morphVars, skinVars, animVars, viewVars, hostVars, boundsVars>>

\* AnimatedModel::SetBonesEnabledAttr of the first component.
SetBonesEnabledAttr(value) ==
    /\ skeleton_' = [i \in 1..Len(skeleton_) |->
                        IF i <= Len(value)
                        THEN [skeleton_[i] EXCEPT !.animated_ = value[i]]
                        ELSE skeleton_[i]]
    /\ last' = [op |-> "SetBonesEnabledAttr"]
    /\ UNCHANGED otherSkeletons
    /\ UNCHANGED <<model_, bonesOrder, boneNodeTransform, nodeWorld, skinMatrices_,
                   skeletonData_, geometryBoneMappings_, geometrySkinMatrices_,
                   geometrySkinMatrixPtrs_, skinningDirty_, softwareSkinning_>>
    /\ UNCHANGED animVars
    /\ UNCHANGED notSkinVars

\* AnimatedModel::ConnectToAnimationStateSource of the first component.
ConnectToAnimationStateSource(source) ==
    /\ animationStateSource_' = source
    /\ last' = [op |-> "ConnectToAnimationStateSource"]
    /\ UNCHANGED <<lodVars, morphVars, skinVars, animVars, viewVars, contextVars,
                   assignBonesPending_, boundsVars>>

\* The tracks an animation of a chain model may hold.
SkinTracks == {[bone |-> i, transform |-> t] : i \in 0..MaxSkinBones, t \in LocalTransforms}

NextSkin ==
    \/ \E asset \in SkinAssets \cup {StaticAsset}, useHardwareSkinning \in BOOLEAN :
          SetModel(asset, useHardwareSkinning)
    \/ SetModelNull
    \/ \E world \in WorldTransforms : NodeMoved(world)
    \/ \E i \in 1..MaxSkinBones, transform \in LocalTransforms : BoneNodeMoved(i, transform)
    \/ \E i \in 1..MaxSkinBones : BoneNodeRemoved(i)
    \/ \E timeStep \in TimeSteps, track \in SkinTracks : RenderUpdateGeometry(timeStep, track)

Tracks == {[bone |-> i, transform |-> t] : i \in 0..NumBones, t \in LocalTransforms}

NextBones ==
    \/ UpdateBoneBoundingBox
    \/ \E track \in Tracks : ApplyAnimation(track)

NextBuffer ==
    \/ \E reset \in BOOLEAN : CallInitializeLocalBoneTransforms(reset)
    \/ \E track \in SkinTracks : ApplyAnimation(track)
    \/ \E i \in 1..MaxSkinBones : BoneNodeRemoved(i)
    \/ UpdateBoneBoundingBox

(***************************************************************************)
(* Specifications                                                          *)
(***************************************************************************)
InitSpecLod == InitLod /\ IdleMorph /\ IdleSkin /\ IdleView /\ IdleHost /\ IdleBounds /\ last = NoOp
SpecLod == InitSpecLod /\ [][NextLod]_vars

InitSpecMorph == InitMorph /\ IdleLod /\ IdleSkin /\ IdleView /\ IdleHost /\ IdleBounds /\ last = NoOp
SpecMorph == InitSpecMorph /\ [][NextMorph]_vars

InitSpecSkin == IdleSkin /\ IdleLod /\ IdleMorph /\ IdleView /\ IdleHost /\ IdleBounds /\ last = NoOp
SpecSkin == InitSpecSkin /\ [][NextSkin]_vars

InitSpecNode == IdleMorph /\ IdleLod /\ IdleSkin /\ IdleView /\ IdleHost /\ IdleBounds /\ last = NoOp
SpecNode == InitSpecNode /\ [][NextNode]_vars

InitSpecBuffer == ConstructSkin(SkinAsset(1)) /\ IdleLod /\ IdleMorph /\ IdleView /\ IdleHost /\ IdleBounds /\ last = NoOp
SpecBuffer == InitSpecBuffer /\ [][NextBuffer]_vars

NextBounds ==
    \/ \E asset \in BoundsAssets : SetModel(asset, TRUE)
    \/ \E m \in Models, bones \in SiblingSkeletons : SetSiblingSkeleton(m, bones)

InitSpecBounds == ConstructSkin(BoundsAsset(1)) /\ IdleLod /\ IdleMorph /\ IdleView /\ IdleHost /\ IdleBounds /\ last = NoOp
SpecBounds == InitSpecBounds /\ [][NextBounds]_vars

\* The frame times and the animation tracks the updates meet: a track moves
\* one bone away from its bind pose.
UpdateTimeSteps == TimeSteps \ {0}
UpdateAsset == BoundsAsset(1)
UpdateTracks ==
    {[bone |-> i, transform |-> Transform(0, 0 - 1, 2)] : i \in 1..Len(UpdateAsset.bones)}

\* The one track of the animation played while frames pass: it moves the last bone.
FrameTracks == {track \in UpdateTracks : track.bone = Len(UpdateAsset.bones)}

\* The operations around PrepareForThreadedUpdate on a master: frames pass,
\* the component is seen or not, its animation is marked dirty, it is updated
\* and its geometry is updated.
NextFrame ==
    \/ BeginFrame
    \/ MarkInView
    \/ \E enable \in BOOLEAN : SetUpdateInvisible(enable)
    \/ MarkAnimationDirty
    \/ \E camera \in BOOLEAN, beyondDrawDistance \in BOOLEAN,
          lodDistance \in UpdateLodDistances, track \in FrameTracks :
          Update(camera, beyondDrawDistance, lodDistance, 1, track)
    \/ \E track \in FrameTracks : RenderUpdateGeometry(1, track)

InitSpecFrame ==
    ConstructSkin(UpdateAsset) /\ IdleLod /\ IdleMorph /\ IdleView /\ IdleHost /\ IdleBounds /\ last = NoOp
SpecFrame == InitSpecFrame /\ [][NextFrame]_vars

\* The operations of the animation update on a master or on a sibling: the
\* component leaves the node and joins it again behind the others, its
\* animation is marked dirty, a view sets the animation LOD distance, the
\* component is updated, the octree moves the bone nodes, the animation is
\* applied at once, a bone node goes away.
NextUpdate ==
    \/ RemoveComponent(1)
    \/ AddComponent(1)
    \/ MarkAnimationDirty
    \/ \E newLodDistance \in UpdateLodDistances : UpdateBatches(newLodDistance)
    \/ \E timeStep \in UpdateTimeSteps, track \in UpdateTracks :
          Update(TRUE, FALSE, 0, timeStep, track)
    \/ UpdateNodeTransforms
    \/ \E track \in UpdateTracks : ApplyAnimation(track)
    \/ \E i \in 1..Len(UpdateAsset.bones) : BoneNodeRemoved(i)

InitSpecUpdate ==
    ConstructSkin(UpdateAsset) /\ IdleLod /\ IdleMorph /\ IdleView /\ IdleHost /\ IdleBounds /\ last = NoOp
SpecUpdate == InitSpecUpdate /\ [][NextUpdate]_vars

\* The operations on a component that shares the bone nodes of a master: the
\* first component is the master and applies its animation, leaves the node and
\* joins it again behind the others, and is then updated, reset and given a
\* skeleton as a sibling.
NextSibling ==
    \/ RemoveComponent(1)
    \/ AddComponent(1)
    \/ \E track \in UpdateTracks : ApplyAnimation(track)
    \/ \E timeStep \in UpdateTimeSteps, track \in UpdateTracks :
          Update(TRUE, FALSE, 0, timeStep, track)
    \/ \E timeStep \in UpdateTimeSteps, track \in UpdateTracks :
          RenderUpdateGeometry(timeStep, track)
    \/ ResetBones
    \/ \E asset \in {UpdateAsset, BoundsAsset(2)} :
          IsAttached(1) /\ ~isMaster_[1] /\ SetSkeleton(asset, TRUE)
    \/ IsAttached(1) /\ ~isMaster_[1] /\ AssignBoneNodes({})
    \/ \E i \in 1..Len(UpdateAsset.bones) : BoneNodeRemoved(i)

InitSpecSibling ==
    ConstructSkin(UpdateAsset) /\ IdleLod /\ IdleMorph /\ IdleView /\ IdleHost /\ IdleBounds /\ last = NoOp
SpecSibling == InitSpecSibling /\ [][NextSibling]_vars

\* The flags GetUpdateGeometryType reads, raised in every combination, with
\* and without a graphics subsystem: models are set under hardware or software
\* skinning (without graphics there is no renderer and softwareSkinning_ keeps
\* its value), a morph weight is set, the node moves, the animation is marked
\* dirty and an update of the component never in view records the forced
\* update; UpdateGeometry is called whatever the flags.
GeometryAssets == {UpdateAsset, SkinAsset(2)}

NextGeometry ==
    \/ \E asset \in GeometryAssets, useHardwareSkinning \in BOOLEAN :
          /\ graphics \/ (useHardwareSkinning = ~softwareSkinning_)
          /\ SetModel(asset, useHardwareSkinning)
    \/ \E w \in Weights : CallSetMorphWeight(1, 0, w)
    \/ \E world \in WorldTransforms : NodeMoved(world)
    \/ MarkAnimationDirty
    \/ \E timeStep \in UpdateTimeSteps, track \in FrameTracks :
          Update(TRUE, FALSE, 0, timeStep, track)
    \/ \E timeStep \in UpdateTimeSteps, track \in FrameTracks :
          UpdateGeometry(timeStep, track)

InitSpecGeometry ==
    /\ ConstructSkin(UpdateAsset) /\ IdleLod /\ IdleMorph /\ IdleView
    /\ graphics \in BOOLEAN
    /\ IdleUI
    /\ assignBonesPending_ = FALSE
    /\ animationStateSource_ = TRUE
    /\ IdleBounds /\ last = NoOp
SpecGeometry == InitSpecGeometry /\ [][NextGeometry]_vars

\* A model resource loaded again with other bone values, the bone structure
\* the same.
Reloaded(asset) ==
    [asset EXCEPT !.bones = [i \in 1..Len(asset.bones) |->
                                [asset.bones[i] EXCEPT !.offsetMatrix_ = Matrix(1, i)]]]

\* A model resource loaded again with the last bone made a root.
Restructured(asset) ==
    [asset EXCEPT !.bones = [i \in 1..Len(asset.bones) |->
                                IF i = Len(asset.bones)
                                THEN [asset.bones[i] EXCEPT !.parentIndex_ = i - 1]
                                ELSE asset.bones[i]]]

\* The resources the first component is given, and the states they are
\* loaded in.
SkeletonResources == {UpdateAsset, BoundsAsset(2)}
SkeletonAssets == SkeletonResources \cup {Reloaded(UpdateAsset), Restructured(UpdateAsset)}

\* The nodes below node_ that no bone refers to: none, or nodes named like
\* the first bones of the skeleton.
ExtraNodes ==
    {{skeleton_[i].name_ : i \in 1..k} : k \in 0..Len(skeleton_)}

\* The values of the attribute "Bone Animation Enabled".
BonesEnabled == {<<FALSE>>}

\* The operations that define the skeleton of the first component and assign
\* its bone nodes, on a master, on a component without a node and on a
\* sibling: the component leaves the node and joins it again behind the
\* others; models are set, with bones or for ApplyAttributes to assign them,
\* and reloaded; skeletons are set; a bone is switched off, the node of the
\* last bone moved and removed.
NextSkeleton ==
    \/ RemoveComponent(1)
    \/ AddComponent(1)
    \/ \E asset \in SkeletonResources : SetModel(asset, TRUE)
    \/ \E asset \in SkeletonResources : SetModelAttr(asset, TRUE)
    \/ SetModelNull
    \/ \E reloaded \in SkeletonAssets : HandleModelReloadFinished(reloaded, TRUE)
    \/ \E asset \in SkeletonAssets, createBones \in BOOLEAN : SetSkeleton(asset, createBones)
    \/ \E extra \in ExtraNodes : ApplyAttributes(extra)
    \/ \E value \in BonesEnabled : SetBonesEnabledAttr(value)
    \/ BoneNodeMoved(Len(skeleton_), Transform(0, 0 - 1, 2))
    \/ BoneNodeRemoved(Len(skeleton_))

InitSpecSkeleton ==
    ConstructSkin(UpdateAsset) /\ IdleLod /\ IdleMorph /\ IdleView /\ IdleHost /\ IdleBounds /\ last = NoOp
SpecSkeleton == InitSpecSkeleton /\ [][NextSkeleton]_vars

\* The animation of a master whose animation source comes and goes: the
\* source is connected or disconnected, the animation marked dirty, a bone
\* node moved, the component updated, the animation calculated or applied.
NextSource ==
    \/ \E source \in BOOLEAN : ConnectToAnimationStateSource(source)
    \/ MarkAnimationDirty
    \/ \E transform \in LocalTransforms : BoneNodeMoved(1, transform)
    \/ \E lodDistance \in UpdateLodDistances, timeStep \in UpdateTimeSteps,
          track \in UpdateTracks :
          Update(TRUE, FALSE, lodDistance, timeStep, track)
    \/ UpdateNodeTransforms
    \/ \E track \in UpdateTracks : CallCalculateAnimations(track)
    \/ \E track \in UpdateTracks : ApplyAnimation(track)
    \/ MarkInView

InitSpecSource ==
    ConstructSkin(UpdateAsset) /\ IdleLod /\ IdleMorph /\ IdleView /\ IdleHost /\ IdleBounds /\ last = NoOp
SpecSource == InitSpecSource /\ [][NextSource]_vars

\* The flags around OnMarkedDirty on a component with and without bones:
\* models with and without a skeleton are set, under hardware or software
\* skinning, the node and a bone node move, the animation is marked dirty, the
\* frames pass and the component is seen or not, so that an update out of
\* view records a forced update, its bone bounding box and its geometry are
\* updated.
DirtyAssets == {StaticAsset, UpdateAsset}

NextDirty ==
    \/ \E asset \in DirtyAssets, useHardwareSkinning \in BOOLEAN :
          SetModel(asset, useHardwareSkinning)
    \/ \E world \in WorldTransforms : NodeMoved(world)
    \/ BoneNodeMoved(1, Transform(1, 1, 1))
    \/ MarkAnimationDirty
    \/ BeginFrame
    \/ MarkInView
    \/ \E track \in FrameTracks : Update(TRUE, FALSE, 0, 1, track)
    \/ UpdateBoneBoundingBox
    \/ \E track \in FrameTracks : RenderUpdateGeometry(1, track)

InitSpecDirty ==
    ConstructSkin(StaticAsset) /\ IdleLod /\ IdleMorph /\ IdleView /\ IdleHost /\ IdleBounds /\ last = NoOp
SpecDirty == InitSpecDirty /\ [][NextDirty]_vars

\* The bone bounding box of a master: models without bones and with bones
\* that have a sphere, a hitbox, both or neither are set, the node and the
\* bone nodes move, the component is updated, its bone bounding box is updated
\* on request and its world bounding box fetched.
BoxAssets ==
    {StaticAsset} \cup
    {BoundsAsset(k) : k \in {j \in 1..Len(CollisionInfos) :
                                BONECOLLISION_BOX \in CollisionInfos[j].collisionMask_
                                    => Defined(CollisionInfos[j].boundingBox_)}}

NextBox ==
    \/ \E asset \in BoxAssets : SetModel(asset, TRUE)
    \/ NodeMoved(Matrix(0 - 1, 0))
    \/ \E i \in 1..2 : BoneNodeMoved(i, Transform(0, 0 - 1, 2))
    \/ \E track \in FrameTracks : Update(TRUE, FALSE, 0, 1, track)
    \/ UpdateBoneBoundingBox
    \/ GetWorldBoundingBox

InitSpecBox ==
    ConstructSkin(StaticAsset) /\ IdleLod /\ IdleMorph /\ IdleView /\ IdleHost /\ IdleBounds /\ last = NoOp
SpecBox == InitSpecBox /\ [][NextBox]_vars

\* The bone collision data of a master with and without siblings: the other
\* components leave the node and join it again, the master is given models and
\* no model, and skeletons of its own, and the siblings are given skeletons.
FinalizeAssets == {BoundsAsset(Len(CollisionInfos))}

NextFinalize ==
    \/ \E m \in Models \ {1} : RemoveComponent(m)
    \/ \E m \in Models \ {1} : AddComponent(m)
    \/ \E asset \in BoundsAssets : SetModel(asset, TRUE)
    \/ SetModelNull
    \/ \E asset \in FinalizeAssets : SetSkeleton(asset, TRUE)
    \/ \E bones \in SiblingSkeletons : SetSiblingSkeleton(2, bones)

InitSpecFinalize ==
    ConstructSkin(BoundsAsset(1)) /\ IdleLod /\ IdleMorph /\ IdleView /\ IdleHost /\ IdleBounds /\ last = NoOp
SpecFinalize == InitSpecFinalize /\ [][NextFinalize]_vars

\* A master whose animation LOD bias and distance stay as they are while it is
\* updated frame after frame: the animation is marked dirty, and the component
\* is updated with a positive timeStep, with or without a camera; it is never
\* out of view, so that PrepareForThreadedUpdate passes.
NextDeferred ==
    \/ MarkAnimationDirty
    \/ \E camera \in BOOLEAN, timeStep \in UpdateTimeSteps, track \in FrameTracks :
          Update(camera, FALSE, animationLodDistance_, timeStep, track)

\* The distances the view left: LOD off, and distances that one Update with the
\* longest timeStep and the smallest bias does not reach.
DeferredDistances == {0, MaxTimeStep + 1, 2 * MaxTimeStep + 1}

\* The component after SetAnimationLodBias(bias) with a positive bias and an
\* UpdateBatches call that left the distance.
InitSpecDeferred ==
    /\ ConstructSkin(UpdateAsset) /\ IdleMorph /\ IdleView /\ IdleHost /\ IdleBounds
    /\ animationLodBias_ \in 1..MaxBias
    /\ animationLodDistance_ \in DeferredDistances
    /\ animationLodTimer_ = TimerSentinel
    /\ animationLodFrameNumber_ = 1
    /\ baseScale = 1
    /\ frameNumber = 1
    /\ lodRun = BrokenRun
    /\ viewDistances = NotRecorded
    /\ last = NoOp
SpecDeferred == InitSpecDeferred /\ [][NextDeferred]_vars

\* The octree updates the component in every frame.
FairUpdate ==
    \E camera \in BOOLEAN, timeStep \in UpdateTimeSteps, track \in FrameTracks :
        Update(camera, FALSE, animationLodDistance_, timeStep, track)
SpecDeferredFair == SpecDeferred /\ WF_vars(FairUpdate)

\* The distances the views and the cameras give: LOD off, the shortest, and
\* one that a single Update does not always reach.
ThrottleDistances == {0, 1, MaxTimeStep + 1}

\* The operations that touch the timer, the distance and the bias of a master
\* that is not updated when invisible: frames pass, the component is seen or
\* not, its animation is marked dirty, the bias is set, views set the distance,
\* the component is updated with a camera and its geometry is updated.
NextThrottle ==
    \/ BeginFrame
    \/ MarkInView
    \/ MarkAnimationDirty
    \/ \E bias \in 0..1 : SetAnimationLodBias(bias)
    \/ \E newLodDistance \in ThrottleDistances : UpdateBatches(newLodDistance)
    \/ \E lodDistance \in ThrottleDistances, timeStep \in {0, MaxTimeStep},
          track \in FrameTracks :
          Update(TRUE, FALSE, lodDistance, timeStep, track)
    \/ \E track \in FrameTracks : RenderUpdateGeometry(1, track)

InitSpecThrottle ==
    /\ ConstructSkin(UpdateAsset) /\ IdleMorph /\ IdleView /\ IdleHost /\ IdleBounds
    /\ ConstructLod(1) /\ last = NoOp
SpecThrottle == InitSpecThrottle /\ [][NextThrottle]_vars

\* The dirty flags around Update on a master or on a sibling: the component
\* leaves the node and joins it again behind the others, a morph weight is set,
\* the animation is marked dirty, frames pass and the component is seen or
\* not, it is updated with a camera and its geometry is updated.
NextFlags ==
    \/ RemoveComponent(1)
    \/ AddComponent(1)
    \/ CallSetMorphWeight(1, 0, WeightOne)
    \/ MarkAnimationDirty
    \/ BeginFrame
    \/ MarkInView
    \/ \E track \in FrameTracks : Update(TRUE, FALSE, MaxTimeStep, 1, track)
    \/ \E track \in FrameTracks : RenderUpdateGeometry(1, track)

InitSpecFlags ==
    ConstructSkin(UpdateAsset) /\ IdleLod /\ IdleMorph /\ IdleView /\ IdleHost /\ IdleBounds /\ last = NoOp
SpecFlags == InitSpecFlags /\ [][NextFlags]_vars

\* The views of a frame: frames pass; in a frame the octree first updates the
\* component, whose Prepare may set the distance, and then each view that sees
\* the component calls UpdateBatches with its LOD distance and marks it in view.
NextViews ==
    \/ BeginFrame
    \/ MarkInView
    \/ \E newLodDistance \in ThrottleDistances : UpdateBatches(newLodDistance)
    \/ /\ animationLodFrameNumber_ # frameNumber
       /\ \E lodDistance \in ThrottleDistances, track \in FrameTracks :
             Update(TRUE, FALSE, lodDistance, 1, track)

\* The component constructed, the history of the views kept.
InitSpecViews ==
    /\ ConstructSkin(UpdateAsset) /\ IdleMorph /\ IdleView /\ IdleHost /\ IdleBounds
    /\ animationLodBias_ = 1
    /\ animationLodDistance_ = 0
    /\ animationLodTimer_ = TimerSentinel
    /\ animationLodFrameNumber_ = 0
    /\ baseScale = 1
    /\ frameNumber = 1
    /\ lodRun = NoRun
    /\ viewDistances = {}
    /\ last = NoOp
SpecViews == InitSpecViews /\ [][NextViews]_vars

InitSpecBones == InitBones /\ IdleLod /\ IdleMorph /\ IdleView /\ IdleHost /\ IdleBounds /\ last = NoOp
SpecBones == InitSpecBones /\ [][NextBones]_vars

(***************************************************************************)
(* Claims about the LOD / timer gate (specification SpecLod)               *)
(***************************************************************************)
LastIsTimerCall == last.op = "UpdateAndCheckAnimationTimers"

\* C1: a call of UpdateAndCheckAnimationTimers made while the bias or the
\* distance is not positive reports due and leaves the timer as it was; the
\* bias is never negative, SetAnimationLodBias storing max(bias, 0).
C1_DisabledAlwaysDue ==
    /\ animationLodBias_ >= 0
    /\ (last.op = "SetAnimationLodBias"
            => animationLodBias_ = (IF last.bias < 0 THEN 0 ELSE last.bias))
    /\ (LastIsTimerCall /\ (animationLodBias_ <= 0 \/ animationLodDistance_ <= 0)
            => last.due /\ animationLodTimer_ = last.timer)

\* C1 witness: a call with bias 0, a positive distance, a running timer and a
\* positive timeStep.
C1_Witness ==
    /\ LastIsTimerCall
    /\ animationLodBias_ = 0
    /\ animationLodDistance_ > 0
    /\ last.timer > 0
    /\ last.timeStep > 0

\* C2: with bias > 0 and distance > 0, a call made while the timer is negative
\* reports due and stores exactly 0, whatever the timeStep.
C2_SentinelDue ==
    (LastIsTimerCall /\ animationLodBias_ > 0 /\ animationLodDistance_ > 0
        /\ last.timer < 0)
        => last.due /\ animationLodTimer_ = 0

\* C2 witness: such a first call with a positive timeStep.
C2_Witness ==
    /\ LastIsTimerCall
    /\ animationLodBias_ > 0
    /\ animationLodDistance_ > 0
    /\ last.timer < 0
    /\ last.timeStep > 0

\* The scenario of C3: bias 1, distance 10, base scale 1, timeStep 1, from the
\* sentinel.
InScenario ==
    /\ lodRun.steady
    /\ lodRun.calls >= 1
    /\ lodRun.timeStep = 1
    /\ animationLodBias_ = 1
    /\ animationLodDistance_ = 10
    /\ baseScale = 1

\* C3: with bias > 0, distance > 0 and a timer t >= 0, the call computes
\* t' = t + bias*dt*baseScale, reports due and stores t' mod distance iff
\* t' >= distance, and otherwise reports not due and stores t'. In the scenario,
\* call 1 is due with timer 0, calls 2..10 are not due with timer 1..9, call 11
\* is due with timer 0.
C3_AccumulateAndWrap ==
    /\ (LastIsTimerCall /\ animationLodBias_ > 0 /\ animationLodDistance_ > 0
            /\ last.timer >= 0)
        => LET t == last.timer + animationLodBias_ * last.timeStep * baseScale
           IN  /\ last.due <=> t >= animationLodDistance_
               /\ last.due => animationLodTimer_ = t % animationLodDistance_
               /\ ~last.due => animationLodTimer_ = t
    /\ (InScenario /\ LastIsTimerCall)
        => /\ lodRun.calls = 1 => last.due /\ animationLodTimer_ = 0
           /\ lodRun.calls \in 2..10
                => ~last.due /\ animationLodTimer_ = lodRun.calls - 1
           /\ lodRun.calls = 11 => last.due /\ animationLodTimer_ = 0

\* C3 witness: the eleventh call of the scenario.
C3_Witness == InScenario /\ LastIsTimerCall /\ lodRun.calls = 11

\* C3 witness of the general case: a due call that wraps to a non-zero timer.
C3_WrapWitness ==
    /\ LastIsTimerCall
    /\ last.timer >= 0
    /\ last.due
    /\ animationLodBias_ > 0
    /\ animationLodDistance_ > 0
    /\ animationLodTimer_ > 0

\* A steady run: n >= 1 calls with one timeStep, bias and distance fixed and
\* positive, starting from the sentinel. T = n * timeStep.
InSteadyRun ==
    /\ lodRun.steady
    /\ lodRun.calls >= 1
    /\ animationLodBias_ > 0
    /\ animationLodDistance_ > 0

RunIncrement == animationLodBias_ * lodRun.timeStep * baseScale
RunFloor == (animationLodBias_ * (lodRun.calls * lodRun.timeStep) * baseScale)
                \div animationLodDistance_

\* C4 as stated: over a steady run the number of due reports is
\* floor(bias*T*baseScale/distance) or that value plus 1.
C4_Original ==
    InSteadyRun => lodRun.dues \in {RunFloor, RunFloor + 1}

\* C4 as amended: the same, for runs whose per-call increment
\* bias*timeStep*baseScale does not exceed the distance (a call reports due at
\* most once, however many distances its increment spans).
C4_DueCount ==
    (InSteadyRun /\ RunIncrement <= animationLodDistance_)
        => lodRun.dues \in {RunFloor, RunFloor + 1}

\* C4 witness: a steady run with several wraps, the count being the floor itself.
C4_Witness ==
    /\ InSteadyRun
    /\ RunIncrement <= animationLodDistance_
    /\ RunIncrement > 0
    /\ lodRun.dues >= 3
    /\ lodRun.dues = RunFloor

(***************************************************************************)
(* Claims about morph weights (specification SpecMorph)                    *)
(***************************************************************************)
\* The non-master components of the node other than m.
SiblingsOf(m) ==
    {o \in Models \ {m} : ~isMaster_[o] /\ \E pos \in 1..Len(components) : components[pos] = o}

\* C5 as stated: after SetMorphWeight(name, w) on the master, every non-master
\* component of the node that has a morph of the same name hash has weight w
\* there, whatever the weights were before.
C5_Original ==
    (last.op = "SetMorphWeight" /\ isMaster_[last.model] /\ last.found)
        => \A o \in SiblingsOf(last.model) :
              LET j == FirstMorph(morphs_[o], "nameHash", last.nameHash)
              IN  j # 0 => morphs_[o][j].weight = last.weight

\* C5 as amended: a SetMorphWeight call on the master that changes the master's
\* weight of a morph leaves, in every non-master component of the node that has
\* a morph of the same name hash, the first such morph with the new weight.
C5_Propagation ==
    [][(last'.op = "SetMorphWeight" /\ isMaster_[last'.model])
        => \A k \in 1..Len(morphs_[last'.model]) :
              morphs_'[last'.model][k].weight # morphs_[last'.model][k].weight
                => /\ last'.found
                   /\ morphs_'[last'.model][k].weight = last'.weight
                   /\ morphs_[last'.model][k].nameHash = last'.nameHash
                   /\ \A o \in SiblingsOf(last'.model) :
                        LET j == FirstMorph(morphs_[o], "nameHash", last'.nameHash)
                        IN  j # 0 => morphs_'[o][j].weight = last'.weight]_vars

\* C5 witness: the master's second morph and a sibling's first morph, of the
\* same name hash, both hold the non-zero weight the master was just given.
C5_Witness ==
    /\ last.op = "SetMorphWeight"
    /\ isMaster_[last.model]
    /\ last.found
    /\ last.weight # 0
    /\ morphs_[last.model][2].nameHash = last.nameHash
    /\ morphs_[last.model][2].weight = last.weight
    /\ \E o \in SiblingsOf(last.model) :
          /\ morphs_[o][1].nameHash = last.nameHash
          /\ morphs_[o][1].weight = last.weight
          /\ morphsDirty_[o]

\* C6: SetMorphWeight or ResetMorphWeights called on a non-master component
\* leaves the morph weights and the morphsDirty_ flag of every other component,
\* the master included, as they were.
C6_SiblingLocal ==
    [][(last'.op \in {"SetMorphWeight", "ResetMorphWeights"} /\ ~isMaster_[last'.model])
        => \A o \in Models \ {last'.model} :
              /\ morphs_'[o] = morphs_[o]
              /\ morphsDirty_'[o] = morphsDirty_[o]]_vars

\* C6 witness: a sibling was given a non-zero weight; the master's morph of
\* that name hash and another sibling are at zero and not dirty.
C6_Witness ==
    /\ last.op = "SetMorphWeight"
    /\ ~isMaster_[last.model]
    /\ last.found
    /\ last.weight # 0
    /\ morphs_[last.model][1].weight = last.weight
    /\ morphsDirty_[last.model]
    /\ \E o \in Models \ {last.model} :
          /\ isMaster_[o]
          /\ ~morphsDirty_[o]
          /\ \A k \in 1..Len(morphs_[o]) : morphs_[o][k].weight = 0
    /\ \E o \in SiblingsOf(last.model) :
          /\ ~morphsDirty_[o]
          /\ \A k \in 1..Len(morphs_[o]) : morphs_[o][k].weight = 0

\* C7: every morph weight lies in [0, 1].
C7_WeightsInRange ==
    \A m \in Models : \A k \in 1..Len(morphs_[m]) :
        0 <= morphs_[m][k].weight /\ morphs_[m][k].weight <= WeightOne

(***************************************************************************)
(* Skinning claims (SpecSkin)                                              *)
(***************************************************************************)
LastIsSkinning == last.op = "UpdateGeometry" /\ last.skinning

\* C8: after UpdateSkinning, skinMatrices_[i] is the world transform of bone i's
\* node times the bone's offset matrix if the bone has a node, and the model
\* node's world transform otherwise.
C8_SkinMatrices ==
    LastIsSkinning =>
        \A i \in 1..Len(skeleton_) :
            skinMatrices_[i] = IF skeleton_[i].node
                               THEN Mul(BoneNodeWorld(skeleton_, boneNodeTransform, nodeWorld, i),
                                        skeleton_[i].offsetMatrix_)
                               ELSE nodeWorld

\* Both branches taken in one update, on values that tell the product from its
\* reverse and the fallback from the identity.
C8_Witness ==
    /\ LastIsSkinning
    /\ \E i \in 1..Len(skeleton_) :
          /\ skeleton_[i].node
          /\ skinMatrices_[i] # Mul(skeleton_[i].offsetMatrix_,
                                    BoneNodeWorld(skeleton_, boneNodeTransform, nodeWorld, i))
    /\ \E i \in 1..Len(skeleton_) :
          /\ ~skeleton_[i].node
          /\ skinMatrices_[i] = nodeWorld
          /\ nodeWorld # IDENTITY

\* Per-geometry bone mappings are in use.
MappedSkinning == model_ # NoModel /\ Len(geometrySkinMatrices_) > 0

\* How often slot (g, j) is filed under bone b (from 1) in the alias table.
SlotCount(b, g, j) ==
    Cardinality({k \in 1..Len(geometrySkinMatrixPtrs_[b]) :
                     geometrySkinMatrixPtrs_[b][k] = <<g, j>>})

\* C9: with per-geometry bone mappings in use, the alias table has exactly one
\* entry per slot (g, j) of the mappings, filed under bone
\* geometryBoneMappings_[g][j], and after UpdateSkinning
\* geometrySkinMatrices_[g][j] = skinMatrices_[geometryBoneMappings_[g][j]].
C9_GeometrySkinMatrices ==
    MappedSkinning =>
        /\ Len(geometrySkinMatrixPtrs_) = Len(skeleton_)
        /\ Len(geometrySkinMatrices_) = Len(geometryBoneMappings_)
        /\ \A g \in 1..Len(geometryBoneMappings_) :
              /\ Len(geometrySkinMatrices_[g]) = Len(geometryBoneMappings_[g])
              /\ \A j \in 1..Len(geometryBoneMappings_[g]) :
                    /\ \A b \in 1..Len(geometrySkinMatrixPtrs_) :
                          SlotCount(b, g, j) =
                              IF geometryBoneMappings_[g][j] = b - 1 THEN 1 ELSE 0
                    /\ LastIsSkinning =>
                          geometrySkinMatrices_[g][j] =
                              skinMatrices_[geometryBoneMappings_[g][j] + 1]
        /\ \A b \in 1..Len(geometrySkinMatrixPtrs_) :
              \A k \in 1..Len(geometrySkinMatrixPtrs_[b]) :
                  LET p == geometrySkinMatrixPtrs_[b][k]
                  IN  /\ p[1] \in 1..Len(geometryBoneMappings_)
                      /\ p[2] \in 1..Len(geometryBoneMappings_[p[1]])

\* An update in mapped mode where one bone is aliased from two geometries and
\* the bones' matrices differ.
C9_Witness ==
    /\ MappedSkinning
    /\ LastIsSkinning
    /\ \E b \in 1..Len(geometrySkinMatrixPtrs_) : Len(geometrySkinMatrixPtrs_[b]) = 2
    /\ \E i, k \in 1..Len(skinMatrices_) : skinMatrices_[i] # skinMatrices_[k]
    /\ \A g \in 1..Len(geometrySkinMatrices_) :
          \A j \in 1..Len(geometrySkinMatrices_[g]) : geometrySkinMatrices_[g][j] # IDENTITY

(***************************************************************************)
(* Hierarchy composition claim (SpecBones)                                 *)
(***************************************************************************)
\* The last operation ended in CalculateFinalBoneTransforms.
LastComposed == last.op \in {"UpdateBoneBoundingBox", "ApplyAnimation"}

RECURSIVE RootPath(_, _)
\* The bones (from 1) from the root down to bone i.
RootPath(bones, i) ==
    IF bones[i].parentIndex_ = i - 1
    THEN <<i>>
    ELSE Append(RootPath(bones, bones[i].parentIndex_ + 1), i)

RECURSIVE LocalProduct(_, _, _)
\* The product of the local transforms of the first k bones of a path, the
\* root's leftmost.
LocalProduct(data, path, k) ==
    IF k = 0
    THEN IDENTITY
    ELSE Mul(LocalProduct(data, path, k - 1), ToMatrix3x4(data[path[k]].localToParent_))

\* Bones 0, 1 and 2 are a chain root, child, grandchild and each has the local
\* transform "translate by one".
InChain ==
    /\ Len(skeleton_) >= 3
    /\ skeleton_[1].parentIndex_ = 0
    /\ skeleton_[2].parentIndex_ = 0
    /\ skeleton_[3].parentIndex_ = 1
    /\ \A i \in 1..3 : skeletonData_[i].localToParent_ = Transform(1, 1, 1)

\* C10: after CalculateFinalBoneTransforms on a skeleton whose processing order
\* has every parent before its children, each bone's localToComponent_ is the
\* product of the local transforms from the root down to the bone; on the chain
\* root, child, grandchild with translations by one the composed translations
\* are 1, 2 and 3.
C10_HierarchyComposition ==
    (LastComposed /\ ParentsFirst([i \in 1..Len(skeleton_) |-> skeleton_[i].parentIndex_],
                                  bonesOrder)) =>
        /\ \A i \in 1..Len(skeleton_) :
              skeletonData_[i].localToComponent_ =
                  LocalProduct(skeletonData_, RootPath(skeleton_, i),
                               Len(RootPath(skeleton_, i)))
        /\ InChain =>
              \A i \in 1..3 : Translation(skeletonData_[i].localToComponent_) = i

\* The chain composed, with its translations 1, 2 and 3.
C10_Witness ==
    /\ LastComposed
    /\ InChain
    /\ Len(skeleton_) = NumBones
    /\ \A i \in 1..3 : skeletonData_[i].localToComponent_ = Matrix(1, i)

\* A composition where a child precedes a bone of lower index in the processing
\* order and the order of the factors shows.
C10_OrderWitness ==
    /\ LastComposed
    /\ bonesOrder[1] # 0
    /\ \E i \in 1..Len(skeleton_) :
          /\ skeleton_[i].parentIndex_ # i - 1
          /\ skeletonData_[i].localToComponent_ #
                Mul(ToMatrix3x4(skeletonData_[i].localToParent_),
                    skeletonData_[skeleton_[i].parentIndex_ + 1].localToComponent_)

(***************************************************************************)
(* Claims about the master role (SpecNode)                                 *)
(***************************************************************************)
Masters == {m \in Models : IsAttached(m) /\ isMaster_[m]}

\* C13 as stated: in every reachable state exactly one of the node's instances
\* is master, and it is the first-attached one.
C13_Original ==
    Len(components) > 0 => Masters = {GetComponent(components)}

\* C13: in every reachable state at most one of the node's instances is master,
\* and it is the first-attached one; there is one unless the master was removed
\* and the first remaining instance has had no world bounding box update since.
C13_OneMaster ==
    /\ Masters \subseteq {GetComponent(components)}
    /\ (Len(components) > 0 /\ ~promotionOwed) => Masters = {GetComponent(components)}

\* A former master is back on the node behind the instance that took the role.
C13_Witness ==
    /\ Len(components) >= 2
    /\ GetComponent(components) # 1
    /\ Masters = {GetComponent(components)}
    /\ IsAttached(1)
    /\ last.op = "AddComponent"
    /\ last.model = 1

\* C14: once the master was removed, a world bounding box update of the first
\* remaining instance makes it master, one of any other instance changes no
\* role, and removing or destroying an instance changes no role either.
C14_LazyPromotion ==
    [][/\ (promotionOwed /\ last'.op = "OnWorldBoundingBoxUpdate") =>
             IF last'.model = GetComponent(components)
             THEN /\ isMaster_' = [isMaster_ EXCEPT ![last'.model] = TRUE]
                  /\ ~promotionOwed'
             ELSE /\ isMaster_' = isMaster_
                  /\ promotionOwed'
       /\ last'.op \in {"RemoveComponent", "DestroyComponent"} => isMaster_' = isMaster_
      ]_vars

\* The first remaining instance has just been promoted, with another instance
\* on the node that was not.
C14_Witness ==
    /\ last.op = "OnWorldBoundingBoxUpdate"
    /\ last.promoted
    /\ last.model = GetComponent(components)
    /\ Len(components) >= 2
    /\ Masters = {last.model}

(***************************************************************************)
(* Claim about the initialisation of the bone transform buffer (SpecBuffer) *)
(***************************************************************************)
\* C11: InitializeLocalBoneTransforms clears every dirty marker; with reset it
\* sets every bone's localToParent_ to the bind pose whether or not the bone has
\* a node, and a second call in a row leaves the buffer as it is; without reset
\* a bone with a node takes the node's transform and one without the bind pose.
C11_InitializeLocalBoneTransforms ==
    [][last'.op = "InitializeLocalBoneTransforms" =>
          /\ \A i \in 1..Len(skeleton_) :
                /\ skeletonData_'[i].dirty_ = CHANNEL_NONE
                /\ skeletonData_'[i].localToParent_ =
                      IF last'.reset THEN skeleton_[i].initial
                      ELSE IF skeleton_[i].node THEN boneNodeTransform[i]
                      ELSE skeleton_[i].initial
          /\ (last.op = "InitializeLocalBoneTransforms" /\ last.reset /\ last'.reset) =>
                skeletonData_' = skeletonData_
      ]_vars

\* A reset that changed the buffer of a skeleton with a bone whose node is away
\* from the bind pose and a bone without a node.
C11_Witness ==
    /\ last.op = "InitializeLocalBoneTransforms"
    /\ last.reset
    /\ last.changed
    /\ \E i \in 1..Len(skeleton_) :
          skeleton_[i].node /\ boneNodeTransform[i] # skeleton_[i].initial
    /\ \E i \in 1..Len(skeleton_) : ~skeleton_[i].node
    /\ \A i \in 1..Len(skeleton_) : skeletonData_[i].localToParent_ = skeleton_[i].initial

(***************************************************************************)
(* Claims about bone bounding volumes (SpecBounds)                         *)
(***************************************************************************)
\* The operation just performed ran FinalizeBoneBoundingBoxes on the master.
Finalized == last.op \in {"SetModel", "SetSkeleton"} /\ last.finalized

\* The siblings of the first component on the node.
Siblings == {m \in Models \ {1} : IsAttached(m)}

\* C12: when FinalizeBoneBoundingBoxes has run on a master with at least one
\* sibling, no bone's volume is smaller than the one its model resource
\* declares (the radius is at least the resource's, the box holds the
\* resource's box), and it covers the radius and the box of the bone of the
\* same name hash of every sibling that carries the corresponding flag.
C12_NeverShrinks ==
    (Finalized /\ Siblings # {}) =>
        \A i \in 1..Len(skeleton_) :
            /\ skeleton_[i].radius_ >= model_.bones[i].radius_
            /\ model_.bones[i].boundingBox_ \subseteq skeleton_[i].boundingBox_
            /\ \A m \in Siblings :
                  LET otherBone == GetBone(otherSkeletons[m], skeleton_[i].nameHash_)
                  IN  otherBone # NoBone =>
                        /\ BONECOLLISION_SPHERE \in otherBone.collisionMask_ =>
                              skeleton_[i].radius_ >= otherBone.radius_
                        /\ BONECOLLISION_BOX \in otherBone.collisionMask_ =>
                              otherBone.boundingBox_ \subseteq skeleton_[i].boundingBox_

\* A master bone grown by two siblings: its radius comes from one, its box
\* holds the resource's box and a sibling's and equals neither.
C12_Witness ==
    /\ Finalized
    /\ Cardinality(Siblings) >= 2
    /\ \E i \in 1..Len(skeleton_) :
          /\ skeleton_[i].radius_ > model_.bones[i].radius_
          /\ Defined(model_.bones[i].boundingBox_)
          /\ skeleton_[i].boundingBox_ # model_.bones[i].boundingBox_
          /\ \E m \in Siblings :
                LET otherBone == GetBone(otherSkeletons[m], skeleton_[i].nameHash_)
                IN  /\ otherBone # NoBone
                    /\ BONECOLLISION_BOX \in otherBone.collisionMask_
                    /\ Defined(otherBone.boundingBox_)
                    /\ otherBone.boundingBox_ # skeleton_[i].boundingBox_

(***************************************************************************)
(* Claims about the threaded update (SpecFrame)                            *)
(***************************************************************************)
\* The step is an Update whose PrepareForThreadedUpdate returned false.
UpdateRefused == last'.op = "Update" /\ ~last'.prepared

\* C15: whenever PrepareForThreadedUpdate returns false, animationDirty_,
\* boneBoundingBoxDirty_, skinningDirty_, morphsDirty_, skeletonData_ and
\* animationLodDistance_ are unchanged; of the animation state only
\* forceAnimationUpdate_ and animationLodTimer_ may have changed, and then the
\* flag is set and the timer is the sentinel; Update does no further work
\* (nothing is queued, no bone node and no skin matrix changes).
C15_RefusedUpdateChangesNothing ==
    [][UpdateRefused =>
          /\ UNCHANGED <<animationDirty_, boneBoundingBoxDirty_, skinningDirty_,
                         morphsDirty_, skeletonData_, animationLodDistance_>>
          /\ UNCHANGED <<queuedTransforms, boneNodeTransform, skinMatrices_, skeleton_>>
          /\ (<<forceAnimationUpdate_, animationLodTimer_>>' #
                 <<forceAnimationUpdate_, animationLodTimer_>>) =>
                (forceAnimationUpdate_' /\ animationLodTimer_' = TimerSentinel)]_vars

\* An Update refused beyond the draw distance while the animation and the bone
\* bounding box were dirty and a LOD distance was set.
C15_Witness ==
    /\ last.op = "Update"
    /\ ~last.prepared
    /\ animationDirty_
    /\ boneBoundingBoxDirty_
    /\ ~forceAnimationUpdate_
    /\ animationLodDistance_ > 0
    /\ viewFrameNumber_ # 0

\* The instance has been in view before, was last in view more than one frame
\* ago and does not update when invisible.
OutOfView ==
    /\ viewFrameNumber_ # 0
    /\ Abs(frameNumber - viewFrameNumber_) > 1
    /\ ~updateInvisible_

\* C16 as stated: PrepareForThreadedUpdate called with a camera for an
\* instance out of view returns false, and forceAnimationUpdate_ becomes true
\* and animationLodTimer_ the sentinel.
C16_Original ==
    [][(last'.op = "Update" /\ last'.camera /\ OutOfView) =>
          /\ ~last'.prepared
          /\ forceAnimationUpdate_'
          /\ animationLodTimer_' = TimerSentinel]_vars

\* C16: PrepareForThreadedUpdate called with a camera for an instance out of
\* view returns false; if animationDirty_ is set, forceAnimationUpdate_
\* becomes true and animationLodTimer_ the sentinel; if it is clear, neither
\* changes.
C16_DeferredWhenDirty ==
    [][(last'.op = "Update" /\ last'.camera /\ OutOfView) =>
          /\ ~last'.prepared
          /\ IF animationDirty_
             THEN forceAnimationUpdate_' /\ animationLodTimer_' = TimerSentinel
             ELSE UNCHANGED <<forceAnimationUpdate_, animationLodTimer_>>]_vars

\* An Update refused out of view that has recorded the forced update, after
\* the gate had run (the LOD distance is set, so the timer had left the
\* sentinel when the animation was evaluated).
C16_Witness ==
    /\ last.op = "Update"
    /\ last.camera
    /\ ~last.prepared
    /\ OutOfView
    /\ animationDirty_
    /\ forceAnimationUpdate_
    /\ animationLodTimer_ = TimerSentinel
    /\ \E i \in 1..Len(skeletonData_) : skeletonData_[i].dirty_ = CHANNEL_ALL

\* C17: UpdateGeometry on a master with forceAnimationUpdate_ set evaluates
\* and applies the animation once (local transforms read from the nodes, the
\* tracks evaluated, the hierarchy composed, every bone's local transform
\* written to its node, the node marked dirty) before the skin matrices are
\* rebuilt in the same call; with the flag clear it evaluates nothing and
\* writes no bone node.
C17_ForcedUpdate ==
    [][(last'.op = "UpdateGeometry" /\ isMaster_[1]) =>
          IF forceAnimationUpdate_
          THEN /\ ~forceAnimationUpdate_'
               /\ ~animationDirty_'
               /\ \A i \in 1..Len(skeleton_) :
                     /\ skeleton_[i].node =>
                           boneNodeTransform'[i] = skeletonData_'[i].localToParent_
                     /\ skeletonData_'[i].dirty_ = CHANNEL_NONE =>
                           skeletonData_'[i].localToParent_ =
                              IF skeleton_[i].node THEN boneNodeTransform[i]
                              ELSE skeleton_[i].initial
               /\ \E i \in 1..Len(skeleton_) : skeletonData_'[i].dirty_ = CHANNEL_ALL
               /\ skeletonData_' =
                     CalculateFinalBoneTransforms(skeletonData_', skeleton_, bonesOrder)
               /\ boneBoundingBoxDirty_'
               /\ ~skinningDirty_'
               /\ \A i \in 1..Len(skeleton_) :
                     skinMatrices_'[i] =
                        BoneSkinMatrix(skeleton_[i],
                                       BoneNodeWorld(skeleton_, boneNodeTransform',
                                                     nodeWorld, i),
                                       nodeWorld)
          ELSE UNCHANGED <<skeletonData_, boneNodeTransform, animationDirty_,
                           boneBoundingBoxDirty_, animationLodTimer_>>]_vars

\* A forced update just made by UpdateGeometry on the master has moved a bone
\* node away from its bind pose.
C17_Witness ==
    /\ last.op = "UpdateGeometry"
    /\ last.forced
    /\ isMaster_[1]
    /\ \E i \in 1..Len(skeleton_) :
          skeleton_[i].node /\ boneNodeTransform[i] # skeleton_[i].initial

(***************************************************************************)
(* Claims about Update on a master and on a sibling (SpecUpdate)           *)
(***************************************************************************)
\* The step is an Update of the first component that passed Prepare.
UpdatePassed == last'.op = "Update" /\ last'.prepared

\* The local transform InitializeLocalBoneTransforms(false) reads for bone i.
FromNode(i) ==
    IF skeleton_[i].node THEN boneNodeTransform[i] ELSE skeleton_[i].initial

\* What the LOD gate answers in this step.
GateNow ==
    UpdateAndCheckAnimationTimers(animationLodTimer_, animationLodBias_,
                                  animationLodDistance_', last'.timeStep, baseScale)

\* The track evaluator ran in this step: it alone clears animationDirty_.
Evaluated == animationDirty_ /\ ~animationDirty_'

\* C18: in an Update of a master that passed Prepare, the local bone
\* transforms are initialized again iff animationDirty_ or
\* boneBoundingBoxDirty_ was set; the gate is consulted iff animationDirty_
\* was set and the track evaluator runs iff the gate then reported due; the
\* octree is handed bone transforms iff the evaluator ran, one entry for each
\* bone that has a node, holding its new local transform, and none for a bone
\* without a node.
C18_MasterUpdate ==
    [][(UpdatePassed /\ isMaster_[1]) =>
          /\ ~(animationDirty_ \/ boneBoundingBoxDirty_) => UNCHANGED skeletonData_
          /\ (animationDirty_ \/ boneBoundingBoxDirty_) =>
                \A i \in 1..Len(skeleton_) :
                    \/ /\ skeletonData_'[i].dirty_ = CHANNEL_NONE
                       /\ skeletonData_'[i].localToParent_ = FromNode(i)
                    \/ Evaluated /\ skeletonData_'[i].dirty_ = CHANNEL_ALL
          /\ animationLodTimer_' =
                IF animationDirty_ THEN GateNow.timer ELSE animationLodTimer_
          /\ Evaluated <=> (animationDirty_ /\ GateNow.due)
          /\ Evaluated => \E i \in 1..Len(skeleton_) : skeletonData_'[i].dirty_ = CHANNEL_ALL
          /\ IF Evaluated
             THEN queuedTransforms' =
                     {q \in queuedTransforms : ~skeleton_[q.bone].node} \cup
                     {[bone |-> i, transform |-> skeletonData_'[i].localToParent_] :
                         i \in {k \in 1..Len(skeleton_) : skeleton_[k].node}}
             ELSE UNCHANGED queuedTransforms]_vars

\* A master just updated under animation LOD, the gate due: the bone with a
\* node has its new local transform queued, the bone without a node has no
\* entry.
C18_Witness ==
    /\ last.op = "Update"
    /\ last.prepared
    /\ isMaster_[1]
    /\ animationLodDistance_ > 0
    /\ animationLodTimer_ >= 0
    /\ ~animationDirty_
    /\ ~boneBoundingBoxDirty_
    /\ \E i, j \in 1..Len(skeleton_) :
          /\ skeleton_[i].node
          /\ skeletonData_[i].dirty_ = CHANNEL_ALL
          /\ [bone |-> i, transform |-> skeletonData_[i].localToParent_] \in queuedTransforms
          /\ ~skeleton_[j].node
          /\ \A q \in queuedTransforms : q.bone # j

C20_SiblingWritesNoBoneNode ==
    [][(/\ IsAttached(1)
        /\ ~isMaster_[1]
        /\ last'.op \in {"Update", "UpdateGeometry", "ResetBones", "SetSkeleton",
                         "AssignBoneNodes"}) =>
          UNCHANGED boneNodeTransform]_vars


\* The program's state: every variable but the record of the last operation.
ProgramState == <<lodVars, morphVars, skinVars, animVars, viewVars, hostVars, boundsVars>>

\* What an UpdateGeometry step finds: the answer of GetUpdateGeometryType.
UpdateGeometryType ==
    GetUpdateGeometryType(morphsDirty_[1], forceAnimationUpdate_, skinningDirty_,
                          softwareSkinning_)

\* An UpdateGeometry step found the instance fit for a worker thread: only
\* skinningDirty_ was set, and the step writes the instance's skin matrices and
\* clears skinningDirty_; morphs, animation flags, bone buffer, bone nodes and
\* every other component of the node stay as they were.
WorkerUpdate ==
    UpdateGeometryType = UPDATE_WORKER_THREAD =>
        /\ skinningDirty_ /\ ~morphsDirty_[1] /\ ~forceAnimationUpdate_ /\ ~softwareSkinning_
        /\ ~skinningDirty_'
        /\ skinMatrices_' = UpdateSkinning(skinMatrices_, geometrySkinMatrices_,
                                           geometrySkinMatrixPtrs_, skeleton_,
                                           boneNodeTransform, nodeWorld).skin
        /\ UNCHANGED <<lodVars, morphVars, animVars, viewVars, hostVars, boundsVars>>
        /\ UNCHANGED <<model_, skeleton_, otherSkeletons, bonesOrder, nodeWorld,
                       boneNodeTransform, skeletonData_, geometryBoneMappings_,
                       geometrySkinMatrixPtrs_, softwareSkinning_>>

C23_DetachedNoOp ==
    [][/\ (last'.op = "SetModel" /\ ~IsAttached(1)) => ProgramState' = ProgramState
       /\ (last'.op = "SetModel" /\ last'.model = model_.name) =>
              ProgramState' = ProgramState
       /\ (last'.op = "SetSkeleton" /\ last'.createBones /\ ~IsAttached(1)) =>
              ProgramState' = ProgramState]_vars

\* A component without a node, with a skeleton, was asked to take another model.
C23_Witness ==
    /\ last.op = "SetModel"
    /\ ~IsAttached(1)
    /\ last.model # NoModel.name
    /\ last.model # model_.name
    /\ Len(skeleton_) > 0

\* The bone values a skeleton carries besides the node and the animated flag.
BoneValues == {"name_", "parentIndex_", "initial", "offsetMatrix_", "nameHash_",
               "collisionMask_", "radius_", "boundingBox_"}

\* The step leaves the bones their nodes, the nodes their transforms and the
\* bones their animated flags, and gives them the other values of the bones given.
BonesRetained(bones) ==
    /\ Len(skeleton_') = Len(skeleton_)
    /\ \A i \in 1..Len(skeleton_) :
          /\ skeleton_'[i].node = skeleton_[i].node
          /\ skeleton_'[i].animated_ = skeleton_[i].animated_
          /\ \A f \in BoneValues : skeleton_'[i][f] = bones[i][f]
    /\ boneNodeTransform' = boneNodeTransform
    /\ bonesOrder' = bonesOrder

\* The step defines the skeleton anew from the bones given: structure, bind
\* pose, offset matrix and animated flag are theirs; with createBones every
\* bone has a node in its bind pose, without it no bone has a node.
BonesRedefined(bones, createBones) ==
    /\ Len(skeleton_') = Len(bones)
    /\ \A i \in 1..Len(bones) :
          /\ \A f \in {"name_", "parentIndex_", "initial", "offsetMatrix_", "nameHash_",
                        "animated_"} : skeleton_'[i][f] = bones[i][f]
          /\ skeleton_'[i].node = createBones
          /\ createBones => boneNodeTransform'[i] = bones[i].initial

\* C24: SetSkeleton on a master whose bones all have nodes and agree in number,
\* names and parent indices with the new ones keeps nodes and animated flags,
\* takes the other values from the new bones, creates or removes no node,
\* does not notify the animation source and sends no event; in every other
\* case (in which the call is not refused) the skeleton is defined anew, the
\* source notified, the event sent and, with createBones, the bone nodes
\* created. The same holds when SetModel or a reload sets the skeleton.
C24_CompatibleSkeletonKeepsNodes ==
    [][/\ (last'.op = "SetSkeleton" /\ isMaster_[1] /\ ~last'.refused) =>
              IF Compatible(skeleton_, last'.bones)
              THEN /\ BonesRetained(last'.bones)
                   /\ ~last'.notified /\ ~last'.event
                   /\ last'.compatible
              ELSE /\ BonesRedefined(last'.bones, last'.createBones)
                   /\ last'.notified = animationStateSource_ /\ last'.event
       /\ (last'.op \in {"SetModel", "HandleModelReloadFinished"} /\ isMaster_[1]
              /\ ~last'.refused /\ model_' # NoModel) =>
              IF Compatible(skeleton_, model_'.bones)
              THEN BonesRetained(model_'.bones) /\ ~last'.finalized
              ELSE last'.finalized /\ Len(skeleton_') = Len(model_'.bones)]_vars

\* A master with a bone switched off and the node of a bone moved was given
\* the skeleton of its model loaded again: the bone is still off, the node
\* still where it was, the offset matrices are the new ones.
C24_Witness ==
    /\ last.op = "SetSkeleton"
    /\ last.compatible
    /\ isMaster_[1]
    /\ last.bones = Reloaded(UpdateAsset).bones
    /\ ~skeleton_[1].animated_
    /\ \E i \in 1..Len(skeleton_) : boneNodeTransform[i] # skeleton_[i].initial
    /\ \A i \in 1..Len(skeleton_) :
          skeleton_[i].node /\ skeleton_[i].offsetMatrix_ = last.bones[i].offsetMatrix_

\* C25: without an animation source CalculateAnimations writes nothing to the
\* bone transform buffer, clears animationDirty_ and sets
\* boneBoundingBoxDirty_; an Update of a master that evaluates in that state
\* ends with animationDirty_ clear and the buffer holding, unmarked, the
\* transforms read from the bone nodes and their composition.
C25_NoSourceNoAnimation ==
    [][~animationStateSource_ =>
          /\ last'.op = "CalculateAnimations" =>
                /\ skeletonData_' = skeletonData_
                /\ ~animationDirty_'
                /\ boneBoundingBoxDirty_'
          /\ (UpdatePassed /\ isMaster_[1] /\ animationDirty_ /\ GateNow.due) =>
                /\ ~animationDirty_'
                /\ \A i \in 1..Len(skeleton_) :
                      /\ skeletonData_'[i].dirty_ = CHANNEL_NONE
                      /\ skeletonData_'[i].localToParent_ = FromNode(i)
                /\ skeletonData_' =
                      CalculateFinalBoneTransforms(
                          InitializeLocalBoneTransforms(skeletonData_, skeleton_,
                                                        boneNodeTransform, FALSE),
                          skeleton_, bonesOrder)]_vars

\* CalculateAnimations ran without an animation source: the transform of the
\* track is not in the buffer.
C25_Witness ==
    /\ last.op = "CalculateAnimations"
    /\ ~animationStateSource_
    /\ ~animationDirty_
    /\ boneBoundingBoxDirty_
    /\ last.track.bone \in 1..Len(skeletonData_)
    /\ skeletonData_[last.track.bone].localToParent_ # last.track.transform

\* C26: when the node or a bone node is marked dirty, OnMarkedDirty sets
\* skinningDirty_ and boneBoundingBoxDirty_ on a component with a bone and
\* leaves both alone on one without; animationDirty_, morphsDirty_ and
\* forceAnimationUpdate_ stay as they were.
C26_OnMarkedDirty ==
    [][last'.op \in {"NodeMoved", "BoneNodeMoved"} =>
          /\ Len(skeleton_) > 0 => skinningDirty_' /\ boneBoundingBoxDirty_'
          /\ Len(skeleton_) = 0 => UNCHANGED <<skinningDirty_, boneBoundingBoxDirty_>>
          /\ UNCHANGED <<animationDirty_, morphsDirty_, forceAnimationUpdate_>>]_vars

\* The node of a component with bones moved while a forced update was owed and
\* the morphs were dirty: both flags are set, the others as they were.
C26_Witness ==
    /\ last.op = "NodeMoved"
    /\ Len(skeleton_) > 0
    /\ skinningDirty_ /\ boneBoundingBoxDirty_
    /\ forceAnimationUpdate_
    /\ morphsDirty_[1]
    /\ animationDirty_

(***************************************************************************)
(* Claims about the bone bounding box (specification SpecBox)              *)
(***************************************************************************)
\* The points, in halves of the unit, that bone i (from 1) brings to the bone
\* bounding box: the images of its hitbox under its composed matrix if it has
\* the box flag, else the two ends of the sphere of half its radius about the
\* matrix's translation if it has the sphere flag, else none.
BonePoints(i) ==
    LET bone == skeleton_[i]
        m == skeletonData_[i].localToComponent_
    IN  IF BONECOLLISION_BOX \in bone.collisionMask_
        THEN {2 * (m.a * x + m.b) : x \in bone.boundingBox_}
        ELSE IF BONECOLLISION_SPHERE \in bone.collisionMask_
        THEN {2 * m.b - bone.radius_, 2 * m.b + bone.radius_}
        ELSE {}

BoundingBoxCalculated ==
    \/ last.op = "UpdateBoneBoundingBox"
    \/ last.op = "Update" /\ last.bounds

\* C27: when CalculateLocalBoundingBox has run, the bone bounding box of a
\* component without bones is the point at the origin; with bones it is the
\* smallest box holding, for each bone with the box flag, its hitbox
\* transformed by its composed matrix, and for each other bone with the sphere
\* flag the sphere at the matrix's translation of half the bone's radius, bones
\* with neither flag adding nothing; boneBoundingBoxDirty_ is false and
\* worldBoundingBoxDirty_ is true.
C27_LocalBoundingBox ==
    BoundingBoxCalculated =>
        /\ Len(skeleton_) = 0 => boneBoundingBox_ = {0}
        /\ Len(skeleton_) > 0 =>
              LET points == UNION {BonePoints(i) : i \in 1..Len(skeleton_)}
              IN  boneBoundingBox_ = IF points = {} THEN {}
                                     ELSE Infimum(points)..Supremum(points)
        /\ ~boneBoundingBoxDirty_
        /\ worldBoundingBoxDirty_

\* C27 witness: the box has been calculated for a skeleton whose root has both
\* flags and a reflecting matrix and whose other bone has a sphere only.
C27_Witness ==
    /\ last.op = "UpdateBoneBoundingBox"
    /\ Len(skeleton_) = 2
    /\ skeleton_[1].collisionMask_ = {BONECOLLISION_SPHERE, BONECOLLISION_BOX}
    /\ skeleton_[2].collisionMask_ = {BONECOLLISION_SPHERE}
    /\ skeletonData_[1].localToComponent_.a < 0
    /\ Cardinality(boneBoundingBox_) > 1

(***************************************************************************)
(* Claims about FinalizeBoneBoundingBoxes (specification SpecFinalize)     *)
(***************************************************************************)
\* The skeletons of the other components of the node.
SiblingSkeletonsOnNode == OtherSkeletons(components, otherSkeletons, 1)

\* C28: when FinalizeBoneBoundingBoxes has run on the master, with or without
\* siblings on the node, none of its bones has the box flag with a defined
\* hitbox without extent and none has the sphere flag without radius; running
\* it again leaves the bones as they are.
C28_NoDummyVolumes ==
    Finalized =>
        /\ \A i \in 1..Len(skeleton_) :
              LET bone == skeleton_[i]
              IN  /\ BONECOLLISION_BOX \in bone.collisionMask_
                        => Cardinality(bone.boundingBox_) # 1
                  /\ BONECOLLISION_SPHERE \in bone.collisionMask_ => bone.radius_ > 0
        /\ FinalizeBoneBoundingBoxes(skeleton_, model_, SiblingSkeletonsOnNode) = skeleton_

\* C28 witness: the master of a node with siblings holds a model whose root
\* has both flags and no extent, and its root has lost them.
C28_Witness ==
    /\ Finalized
    /\ Siblings # {}
    /\ model_ = BoundsAsset(Len(CollisionInfos))
    /\ model_.bones[1].collisionMask_ = {BONECOLLISION_SPHERE, BONECOLLISION_BOX}
    /\ skeleton_[1].collisionMask_ = {}

(***************************************************************************)
(* Claims about the assignment of bone nodes (specification SpecSkeleton)  *)
(***************************************************************************)
\* A bone of the skeleton has no node of its name below the node, extra being
\* the names of the nodes there that no bone refers to.
BoneNodeMissing(extra) ==
    \E i \in 1..Len(skeleton_) :
        /\ skeleton_[i].name_ \notin extra
        /\ \A k \in 1..Len(skeleton_) :
              skeleton_[k].node => skeleton_[k].name_ # skeleton_[i].name_

\* C29: AssignBoneNodes leaves assignBonesPending_ false. On a component
\* without a node it changes nothing else. On a component with a node, when a
\* bone's node is missing and a model is set, the skeleton is defined once
\* from the model's (on a master with its bone nodes created, on a sibling
\* without creating any), and nothing is pending afterwards; otherwise no
\* skeleton is set: the bones keep their values, and nodes and transforms are
\* not created. After ApplyAttributes nothing is pending.
C29_AssignBoneNodes ==
    [][/\ last'.op \in {"AssignBoneNodes", "ApplyAttributes"} => ~assignBonesPending_'
       /\ last'.op = "AssignBoneNodes" =>
             IF ~IsAttached(1)
             THEN /\ ~last'.corrective
                  /\ UNCHANGED <<lodVars, morphVars, skinVars, animVars, viewVars, contextVars,
                                 animationStateSource_, boundsVars>>
             ELSE IF BoneNodeMissing(last'.extra) /\ model_ # NoModel
             THEN /\ last'.corrective
                  /\ IF isMaster_[1]
                     THEN BonesRedefined(model_.bones, TRUE)
                     ELSE /\ Len(skeleton_') = Len(model_.bones)
                          /\ \A i \in 1..Len(model_.bones) :
                                skeleton_'[i].name_ = model_.bones[i].name_
                          /\ boneNodeTransform' = boneNodeTransform
             ELSE /\ ~last'.corrective
                  /\ Len(skeleton_') = Len(skeleton_)
                  /\ \A i \in 1..Len(skeleton_) :
                        /\ \A f \in BoneValues \cup {"animated_"} :
                              skeleton_'[i][f] = skeleton_[i][f]
                        /\ skeleton_[i].node => skeleton_'[i].node
                  /\ UNCHANGED <<boneNodeTransform, bonesOrder, skinningDirty_,
                                 boneBoundingBoxDirty_>>]_vars

\* C29 witness: the bones of a component in the scene were pending, one had no
\* node, and the skeleton has been set again from the model with every bone
\* node created.
C29_Witness ==
    /\ last.op = "AssignBoneNodes"
    /\ last.attached /\ last.corrective
    /\ ~assignBonesPending_
    /\ model_ # NoModel
    /\ Len(skeleton_) = Len(model_.bones)
    /\ Len(skeleton_) > 0
    /\ isMaster_[1]
    /\ \A i \in 1..Len(skeleton_) : skeleton_[i].node

(***************************************************************************)
(* Claims about the assertion in UpdateGeometry (specification SpecFrame)  *)
(***************************************************************************)
\* C30: URHO3D_ASSERT(needUpdate) in UpdateGeometry holds: whenever
\* UpdateGeometry has run with forceAnimationUpdate_ set,
\* UpdateAndCheckAnimationTimers has reported due.
C30_AssertionHolds ==
    (last.op = "UpdateGeometry" /\ last.forced) => last.needUpdate

(***************************************************************************)
(* Claims about the merged collision data between redefinitions            *)
(* (specification SpecFinalize)                                            *)
(***************************************************************************)
\* The fields of a bone that make its collision data.
CollisionValues == {"collisionMask_", "radius_", "boundingBox_"}

\* C31: whenever the master has a model and at least one sibling on its node,
\* the collision data of each of its bones are those its model declares merged
\* with those of the same-name-hash bone of every sibling now on the node,
\* dummy volumes stripped: also after a compatible reload of the model and
\* after a sibling has been removed.
C31_MergedCollisionData ==
    (IsAttached(1) /\ isMaster_[1] /\ model_ # NoModel /\ Siblings # {}) =>
        LET merged == FinalizeBoneBoundingBoxes(skeleton_, model_, SiblingSkeletonsOnNode)
        IN  \A i \in 1..Len(skeleton_) :
                \A f \in CollisionValues : skeleton_[i][f] = merged[i][f]

(***************************************************************************)
(* Claims about throttled evaluations (specification SpecDeferredFair)     *)
(***************************************************************************)
\* The track evaluator ran in the last Update.
EvaluatedInUpdate == last.op = "Update" /\ last.due

\* C32: a master Update in which the gate reports not due leaves
\* animationDirty_ set, and while the master is updated frame after frame with
\* a positive timeStep, a positive bias and a distance that do not change, a
\* dirty animation leads to an Update in which the track evaluator runs.
C32_DeferredNeverLost ==
    /\ [][(last'.op = "Update" /\ last'.called /\ ~last'.due) => animationDirty_']_vars
    /\ ((isMaster_[1] /\ animationDirty_) ~> EvaluatedInUpdate)

\* C32 witness: an Update of the master called the gate, which accumulated
\* time and reported not due, and the animation is still dirty.
C32_Witness ==
    /\ last.op = "Update" /\ last.called /\ ~last.due
    /\ isMaster_[1]
    /\ animationDirty_
    /\ animationLodTimer_ > 0

(***************************************************************************)
(* Claims about the range of the timer (specification SpecThrottle)        *)
(***************************************************************************)
\* The step called UpdateAndCheckAnimationTimers: an Update of the master that
\* passed Prepare with the animation dirty, or an UpdateGeometry with the
\* forced update recorded.
GateCalled ==
    \/ last'.op = "Update" /\ last'.called
    \/ last'.op = "UpdateGeometry" /\ last'.forced

\* C33: right after a call of UpdateAndCheckAnimationTimers made with a
\* positive bias and a positive distance (and a timeStep that is not negative)
\* the timer is at least 0 and below the distance, whatever the distance was
\* at the call before; and a step leaves the timer negative only if it leaves
\* the timer as it was (since construction) or is an Update that Prepare
\* refused with the forced update recorded.
C33_TimerInRange ==
    [][/\ (GateCalled /\ animationLodBias_' > 0 /\ animationLodDistance_' > 0)
            => /\ 0 <= animationLodTimer_'
               /\ animationLodTimer_' < animationLodDistance_'
       /\ animationLodTimer_' < 0
            => \/ animationLodTimer_' = animationLodTimer_
               \/ /\ last'.op = "Update" /\ ~last'.prepared
                  /\ forceAnimationUpdate_']_vars

\* C33 witness: an Update called the gate with a positive bias and a positive
\* distance that had been lowered to the timer or below since the call
\* before, and the timer is in range.
C33_Witness ==
    /\ last.op = "Update" /\ last.called
    /\ animationLodBias_ > 0 /\ animationLodDistance_ > 0
    /\ last.timer >= animationLodDistance_
    /\ last.timer > 0
    /\ 0 <= animationLodTimer_ /\ animationLodTimer_ < animationLodDistance_

(***************************************************************************)
(* Claims about the result of PrepareForThreadedUpdate (specification      *)
(* SpecFrame)                                                              *)
(***************************************************************************)
\* The frame of the Update differs from the last view frame by more than 1.
FrameApart == Abs(frameNumber - viewFrameNumber_) > 1

\* C36 as stated: PrepareForThreadedUpdate returns false exactly when there is
\* a camera, the frames are more than 1 apart and either the instance has been
\* in view before and is not updated when invisible, or it is beyond its draw
\* distance; an instance never in view is not rejected as invisible; without a
\* camera it returns true and keeps animationLodDistance_.
C36_Original ==
    [][last'.op = "Update" =>
          /\ ~last'.prepared <=>
                /\ last'.camera /\ FrameApart
                /\ (everInView /\ ~updateInvisible_) \/ last'.beyond
          /\ (~everInView /\ ~last'.beyond) => last'.prepared
          /\ ~last'.camera =>
                last'.prepared /\ animationLodDistance_' = animationLodDistance_]_vars

\* C36: PrepareForThreadedUpdate returns false exactly when there is a camera,
\* the frames are more than 1 apart and either viewFrameNumber_ is not 0 (the
\* instance has been in view, or has passed this test once, which sets
\* viewFrameNumber_ to 1) and the instance is not updated when invisible, or it
\* is beyond its draw distance; an instance whose viewFrameNumber_ is 0 is not
\* rejected as invisible; without a camera it returns true and keeps
\* animationLodDistance_.
C36_PrepareResult ==
    [][last'.op = "Update" =>
          /\ ~last'.prepared <=>
                /\ last'.camera /\ FrameApart
                /\ (viewFrameNumber_ # 0 /\ ~updateInvisible_) \/ last'.beyond
          /\ (viewFrameNumber_ = 0 /\ ~last'.beyond) => last'.prepared
          /\ ~last'.camera =>
                last'.prepared /\ animationLodDistance_' = animationLodDistance_]_vars

\* C36 witness: an instance that has never been in view, and has been updated
\* once out of view, has been refused as invisible.
C36_Witness ==
    /\ last.op = "Update" /\ last.camera /\ ~last.prepared /\ ~last.beyond
    /\ ~everInView
    /\ viewFrameNumber_ = 1

(***************************************************************************)
(* Claims about the flags Update leaves (specification SpecFlags)          *)
(***************************************************************************)
\* What an Update step does to animationDirty_ and boneBoundingBoxDirty_: it
\* clears animationDirty_ only when CalculateAnimations ran, leaves
\* boneBoundingBoxDirty_ false when Prepare passed, and recomputes the bounds
\* whenever the evaluation was due.
UpdateClearsWhatItDid ==
    /\ (animationDirty_ /\ ~animationDirty_') => last'.due
    /\ ~animationDirty_ => ~animationDirty_'
    /\ last'.prepared => ~boneBoundingBoxDirty_'
    /\ last'.due => last'.bounds

\* C34 as stated: Update leaves skinningDirty_, morphsDirty_ and
\* forceAnimationUpdate_ as they were, clears animationDirty_ only when the
\* track evaluator ran, and leaves boneBoundingBoxDirty_ false when Prepare
\* passed, a due evaluation being followed by the bounds in the same Update.
C34_Original ==
    [][last'.op = "Update" =>
          /\ skinningDirty_' = skinningDirty_
          /\ morphsDirty_' = morphsDirty_
          /\ forceAnimationUpdate_' = forceAnimationUpdate_
          /\ UpdateClearsWhatItDid]_vars

\* C34: Update leaves skinningDirty_ and morphsDirty_ as they were and never
\* clears forceAnimationUpdate_, which it sets only when Prepare refuses the
\* update while the animation is dirty; it clears animationDirty_ only when
\* the track evaluator ran, and leaves boneBoundingBoxDirty_ false when Prepare
\* passed, a due evaluation being followed by the bounds in the same Update.
C34_UpdateFlags ==
    [][last'.op = "Update" =>
          /\ skinningDirty_' = skinningDirty_
          /\ morphsDirty_' = morphsDirty_
          /\ forceAnimationUpdate_ => forceAnimationUpdate_'
          /\ forceAnimationUpdate_' # forceAnimationUpdate_
                => ~last'.prepared /\ animationDirty_
          /\ UpdateClearsWhatItDid]_vars

\* C34 witness: an Update of a sibling whose skinning, morphs and animation
\* were dirty and whose forced update was recorded has passed Prepare; the
\* flags are as they were and the bone bounding box is clean.
C34_Witness ==
    /\ last.op = "Update" /\ last.prepared /\ last.bounds
    /\ ~isMaster_[1]
    /\ skinningDirty_ /\ morphsDirty_[1] /\ forceAnimationUpdate_ /\ animationDirty_
    /\ ~boneBoundingBoxDirty_

(***************************************************************************)
(* Claims about the distance over the views of a frame (specification      *)
(* SpecViews)                                                              *)
(***************************************************************************)
\* The least member of a set of numbers that is not empty.
Minimum(S) == CHOOSE x \in S : \A y \in S : x <= y

\* C35: once UpdateBatches has been called in the current frame,
\* animationLodDistance_ is the least of the LOD distances of the views of
\* this frame, whatever it was before the first of them (kept from the frame
\* before or set by Prepare).
C35_MinimumOverViews ==
    animationLodFrameNumber_ = frameNumber =>
        /\ viewDistances # {}
        /\ animationLodDistance_ = Minimum(viewDistances)

\* C35 witness: in a later frame a second view gave a smaller distance than
\* the first, and the distance is the smaller one.
C35_Witness ==
    /\ last.op = "UpdateBatches" /\ last.sameFrame
    /\ frameNumber > 1
    /\ viewDistances = {1, MaxTimeStep + 1}
    /\ last.newLodDistance = 1
    /\ last.distance = MaxTimeStep + 1
    /\ animationLodDistance_ = 1
(***************************************************************************)
(* Dragging: the elements of the UI are clicked, moved over, released,     *)
(* disabled, hidden and destroyed.                                         *)
(***************************************************************************)
NextDrag ==
    \/ \E element \in UIElements, button \in MouseButtons, newButton \in BOOLEAN,
          destroyedByHandler \in BOOLEAN :
           ProcessClickBegin(element, button, TRUE, newButton, destroyedByHandler)
    \/ \E button \in MouseButtons, cursorVisible \in BOOLEAN :
           ProcessClickEnd(button, cursorVisible)
    \/ \E buttons \in SUBSET MouseButtons, cursorVisible \in BOOLEAN,
          mouseGrabbed \in BOOLEAN, far \in BOOLEAN :
           ProcessMove(buttons, cursorVisible, mouseGrabbed, far)
    \/ \E usingTouchInput \in BOOLEAN : ProcessDragCancel(usingTouchInput)
    \/ \E mouseGrabbed \in BOOLEAN, elapsed \in SUBSET UIElements :
           UpdateDrag(mouseGrabbed, elapsed)
    \/ \E e \in UIElements : DestroyElement(e)
    \/ \E e \in UIElements, enabled \in BOOLEAN, visible \in BOOLEAN :
           SetEnabledVisible(e, enabled, visible)

InitSpecDrag == IdleMorph /\ IdleLod /\ IdleSkin /\ IdleView /\ IdleHost /\ IdleBounds /\ last = NoOp

SpecDrag == InitSpecDrag /\ [][NextDrag]_vars

(***************************************************************************)
(* Modal elements: the application builds the element tree, marks popups   *)
(* and makes windows modal and non-modal.                                  *)
(***************************************************************************)
\* Nothing is modal.
NoModalElement == children_[rootModalElement_] = << >>

NextModal ==
    \/ \E e \in ModalElements \cup {NullElement}, enable \in BOOLEAN :
           SetModalElement(e, enable)
    \/ \E p \in {rootElement_, "window"}, index \in {0, M_MAX_UNSIGNED},
          e \in ModalElements :
           NoModalElement /\ CallInsertChild(p, index, e)
    \/ \E origin \in ModalElements \ {"popup"} :
           NoModalElement /\ SetOrigin("popup", origin)

InitSpecModal == IdleMorph /\ IdleLod /\ IdleSkin /\ IdleView /\ IdleHost /\ IdleBounds /\ last = NoOp

SpecModal == InitSpecModal /\ [][NextModal]_vars

\* C37: for each drag of an element, a drag-end notification is sent only
\* after the drag-begin notification of that drag, and at most once.
C37_DragEndAfterBeginOnce ==
    \A e \in UIElements :
        /\ dragNotes[e].ends <= 1
        /\ dragNotes[e].ends > 0 => dragNotes[e].begun

\* C38: dragElementsCount_ is the number of entries of dragElements_,
\* dragConfirmedCount_ the number of entries whose dragBeginPending is false,
\* and neither counter is negative.
C38_DragCounters ==
    /\ dragElementsCount_ = Cardinality(DOMAIN dragElements_)
    /\ dragConfirmedCount_ =
           Cardinality({e \in DOMAIN dragElements_ : ~dragElements_[e].dragBeginPending})
    /\ dragElementsCount_ >= 0
    /\ dragConfirmedCount_ >= 0

\* A click end has ended the drag of one element and erased its entry, and
\* the begun drag of another element goes on.
C38_Witness ==
    /\ dragElementsCount_ = 1
    /\ dragConfirmedCount_ = 1
    /\ \E e \in UIElements : e \notin DOMAIN dragElements_ /\ dragNotes[e].ends = 1

\* The step is a call SetModalElement(e, enable).
ModalCall(e, enable) ==
    /\ last'.op = "SetModalElement"
    /\ last'.element = e
    /\ last'.enable = enable

\* The step is SetModalElement(e, false) right after a SetModalElement(e, true)
\* that returned true, for an element that had a parent.
ModalRoundTrip(e) ==
    /\ last.op = "SetModalElement"
    /\ last.parent # NullElement
    /\ last.element = e
    /\ last.enable
    /\ last.result
    /\ ModalCall(e, FALSE)

\* The element e is back where it was before it was made modal, without the
\* bookkeeping variables.
ModalRestored(e) ==
    /\ parent_'[e] = last.parent
    /\ FindChild(UITree', last.parent, e) = last.index
    /\ vars_'[e][VAR_ORIGINAL_PARENT] = Absent
    /\ vars_'[e][VAR_ORIGINAL_CHILD_INDEX] = Absent

\* A call of SetModalElement that the claim says is refused: false is
\* returned and the element tree and the variables are as before.
ModalRefused ==
    /\ ~last'.result
    /\ modalVars' = modalVars

\* C39: making a window modal and non-modal again returns true both times
\* and restores it to its original parent and child index with the
\* bookkeeping variables removed; enabling a child of the modal root and
\* disabling an element that is not one return false and change nothing; a
\* null or non-window element is rejected with false.
C39_ModalRoundTrip ==
    [][/\ \A e \in Windows :
              /\ (ModalCall(e, TRUE) /\ parent_[e] # rootModalElement_) => last'.result
              /\ ModalRoundTrip(e) => (last'.result /\ ModalRestored(e))
              /\ (ModalCall(e, TRUE) /\ parent_[e] = rootModalElement_) => ModalRefused
              /\ (ModalCall(e, FALSE) /\ parent_[e] # rootModalElement_) => ModalRefused
       /\ \A e \in (ModalElements \ Windows) \cup {NullElement} :
              last'.op = "SetModalElement" /\ last'.element = e => ModalRefused
      ]_vars

====
